---- MODULE Spec2Model ----
(***************************************************************************)
(* Employee data checker (src/app.py): the "チェック開始" button handler of  *)
(* main(), from the loaded Excel tables to the results bundle, the summary *)
(* metrics and the session state.                                          *)
(*                                                                         *)
(* Representation.                                                         *)
(*  - A Python string is a sequence of character codes (ASCII), so that    *)
(*    string concatenation is \o and string equality is sequence equality. *)
(*  - A cell is a record [t, n, s]: t is the kind of value ("nan" for a   *)
(*    blank cell / NaN / NaT, "int" n, "float" (the integral float n.0),   *)
(*    "text" (the string s), "date" (n = YYYYMMDD, a day without time of   *)
(*    day)).                                                               *)
(*  - A table (DataFrame) is [cols, rows]: cols the set of column names,   *)
(*    rows a sequence of functions from cols to cells.                     *)
(***************************************************************************)
EXTENDS Integers, Sequences, FiniteSets, TLC

VARIABLES
    file_prev,            \* st.file_uploader "up_prev": the uploaded workbook
    file_curr,            \* st.file_uploader "up_curr"
    file_retire,          \* st.file_uploader "up_retire"
    selections_prev,      \* column selectors of ① 前期末データ
    selections_curr,      \* column selectors of ② 当期末データ
    selections_retire,    \* column selectors of ③ 退職者データ
    base_date,            \* st.date_input 計算基準日
    salary_checks,        \* the check boxes and inputs of the salary check panel
    processing_complete,  \* st.session_state.processing_complete
    summary_metrics,      \* st.session_state.summary_metrics
    processed_data,       \* st.session_state.processed_data
    run                   \* what the last pressed run computed (its locals)

vars == <<file_prev, file_curr, file_retire, selections_prev, selections_curr,
          selections_retire, base_date, salary_checks, processing_complete,
          summary_metrics, processed_data, run>>

-----------------------------------------------------------------------------
(* Strings                                                                 *)

\* str(d) of one decimal digit d: its ASCII code.
DigitChar(d) == 48 + d

RECURSIVE Digits(_)
\* str(n) of a natural number n.
Digits(n) == IF n < 10 THEN <<DigitChar(n)>>
             ELSE Digits(n \div 10) \o <<DigitChar(n % 10)>>

RECURSIVE ZeroPad(_, _)
\* A digit string left-padded with '0' to the given width (%Y, %m, %d).
ZeroPad(s, width) == IF Len(s) >= width THEN s ELSE ZeroPad(<<48>> \o s, width)

\* The literal 'NODATE' of the key expression.
NODATE == <<78, 79, 68, 65, 84, 69>>

\* The literal '_' of the key expression.
UNDERSCORE == <<95>>

\* str(float('nan')).
NanStr == <<110, 97, 110>>

\* The '.0' that str() appends to an integral float.
DotZero == <<46, 48>>

-----------------------------------------------------------------------------
(* Cells and dates                                                         *)

NaN == [t |-> "nan", n |-> 0, s |-> <<>>]
IntCell(i) == [t |-> "int", n |-> i, s |-> <<>>]
FloatCell(i) == [t |-> "float", n |-> i, s |-> <<>>]
TextCell(chars) == [t |-> "text", n |-> 0, s |-> chars]
DateCell(ymd) == [t |-> "date", n |-> ymd, s |-> <<>>]

\* Series.notna() / Series.isna() of one cell.
notna(c) == c.t # "nan"
isna(c) == c.t = "nan"

Year(ymd) == ymd \div 10000
Month(ymd) == (ymd \div 100) % 100
Day(ymd) == ymd % 100

\* Number of days from 1970-01-01 to the civil date (proleptic Gregorian),
\* the difference of which is what Timestamp subtraction followed by .dt.days
\* yields for day-valued timestamps.
DaysFromCivil(ymd) ==
    LET y == IF Month(ymd) <= 2 THEN Year(ymd) - 1 ELSE Year(ymd)
        era == y \div 400
        yoe == y - era * 400
        mp == IF Month(ymd) > 2 THEN Month(ymd) - 3 ELSE Month(ymd) + 9
        doy == (153 * mp + 2) \div 5 + Day(ymd) - 1
        doe == yoe * 365 + yoe \div 4 - yoe \div 100 + doy
    IN era * 146097 + doe - 719468

\* base_date_ts - pd.DateOffset(years=1): the same month and day one year
\* earlier, 29 February becoming 28 February.
MinusOneYear(ymd) ==
    IF Month(ymd) = 2 /\ Day(ymd) = 29 THEN (Year(ymd) - 1) * 10000 + 228
    ELSE ymd - 10000

\* Series.dt.strftime('%Y%m%d').fillna('NODATE') of one datetime cell.
StrftimeFillna(c) ==
    IF isna(c) THEN NODATE
    ELSE ZeroPad(Digits(Year(c.n)), 4) \o ZeroPad(Digits(Month(c.n)), 2)
         \o ZeroPad(Digits(Day(c.n)), 2)

\* str(x) of one cell, as Series.astype(str) applies it element by element
\* to a column of numbers, texts and blanks.
StrOfCell(c) ==
    CASE c.t = "int" -> Digits(c.n)
      [] c.t = "float" -> Digits(c.n) \o DotZero
      [] c.t = "text" -> c.s
      [] OTHER -> NanStr

-----------------------------------------------------------------------------
(* Tables                                                                  *)

NONE_OPTION == "(none)"

\* df is None.
NoneDf == [none |-> TRUE, cols |-> {}, rows |-> <<>>]

DataFrame(cols, rows) == [none |-> FALSE, cols |-> cols, rows |-> rows]

\* A table of the same columns with the given rows: df[mask] is
\* WithRows(df, SelectSeq(df.rows, mask)) for a mask computed row by row.
WithRows(df, rows) == [df EXCEPT !.rows = rows]

\* pd.concat of two tables of the same columns.
Concat(a, b) == [a EXCEPT !.rows = a.rows \o b.rows]

\* df.copy() with a new column holding the same cell in every row.
WithColumn(df, name, cell) ==
    DataFrame(df.cols \cup {name},
              [i \in 1..Len(df.rows) |->
                  [c \in df.cols \cup {name} |->
                      IF c = name THEN cell ELSE df.rows[i][c]]])

\* The kinds of value a column of a sheet holds.
ColumnKinds(rows, c) == {rows[i][c].t : i \in 1..Len(rows)}

\* pd.read_excel's column typing: a column of integers with a blank cell (and
\* no text or date) is read as float64, every integer i becoming i.0; other
\* columns keep their cells (int64, datetime64 or object).
ReadExcelCell(rows, c, cell) ==
    IF cell.t = "int" /\ "nan" \in ColumnKinds(rows, c)
       /\ ColumnKinds(rows, c) \subseteq {"int", "nan"}
    THEN FloatCell(cell.n) ELSE cell

\* keyword in row_str: the keyword is a substring of the text (case matters).
Contains(text, keyword) ==
    \E k \in 0..(Len(text) - Len(keyword)) :
        SubSeq(text, k + 1, k + Len(keyword)) = keyword

RECURSIVE JoinStr(_, _, _)
\* ''.join(map(str, row.dropna().values)) for the cells of row i of the grid
\* from column j on: the blanks left out, every other cell as str() gives it
\* (the grid is read with header=None, its columns typed as read_excel does).
JoinStr(grid, i, j) ==
    IF j > Len(grid[i]) THEN <<>>
    ELSE (IF isna(grid[i][j]) THEN <<>>
          ELSE StrOfCell(ReadExcelCell(grid, j, grid[i][j])))
         \o JoinStr(grid, i, j + 1)

\* all(keyword in row_str for keyword in keywords) for row i of the grid.
RowHasKeywords(grid, i, keywords) ==
    \A k \in 1..Len(keywords) : Contains(JoinStr(grid, i, 1), keywords[k])

RECURSIVE LastMatch(_, _, _)
\* The loop of lines 19-23 without its break: the last row that qualifies.
LastMatch(grid, keywords, i) ==
    IF i < 1 THEN -1
    ELSE IF RowHasKeywords(grid, i, keywords) THEN i - 1
    ELSE LastMatch(grid, keywords, i - 1)

\* The header search that keeps the last row holding the keywords.
header_row_index_last(grid, keywords) == LastMatch(grid, keywords, Len(grid))

RECURSIVE FirstMatch(_, _, _)
\* The loop of lines 19-23 from row i on (rows counted from 1 here, the
\* index it yields from 0 as iterrows does): -1 when no row qualifies.
FirstMatch(grid, keywords, i) ==
    IF i > Len(grid) THEN -1
    ELSE IF RowHasKeywords(grid, i, keywords) THEN i - 1
    ELSE FirstMatch(grid, keywords, i + 1)

\* header_row_index of lines 18-23.
header_row_index(grid, keywords) == FirstMatch(grid, keywords, 1)

\* find_header_and_read_excel: None when the file has no header row holding
\* the keywords or fails to parse (file.loads = FALSE), else the table below
\* the header row.
find_header_and_read_excel(file) ==
    IF ~file.loads THEN NoneDf
    ELSE DataFrame(file.cols,
                   [i \in 1..Len(file.rows) |->
                       [c \in file.cols |->
                           ReadExcelCell(file.rows, c, file.rows[i][c])]])

\* INTERNAL_COLS
INTERNAL_COLS(k) ==
    CASE k = "emp_id" -> "_emp_id"
      [] k = "hire_date" -> "_hire_date"
      [] k = "enroll_date" -> "_enroll_date"
      [] k = "birth_date" -> "_birth_date"
      [] k = "retire_date" -> "_retire_date"
      [] k = "salary1" -> "_salary1"
      [] k = "salary2" -> "_salary2"
      [] k = "salary3" -> "_salary3"
      [] OTHER -> "_salary4"

\* The order in which the selections dicts list their keys.
SelectionOrder == <<"emp_id", "hire_date", "enroll_date", "birth_date",
                    "retire_date", "salary1", "salary2", "salary3", "salary4">>

\* The position of the last key of the dict that selects source column v
\* (0 when none does): in the dict comprehension a later key overwrites an
\* earlier one that selected the same column.
LastSelecting(selections, v) ==
    LET hits == {i \in 1..Len(SelectionOrder) :
                    /\ SelectionOrder[i] \in DOMAIN selections
                    /\ selections[SelectionOrder[i]] = v}
    IN IF hits = {} THEN 0 ELSE CHOOSE i \in hits : \A j \in hits : j <= i

\* rename_map of rename_df_columns, applied to one column name.
RenamedColumn(df, selections, v) ==
    IF v # NONE_OPTION /\ v \in df.cols /\ LastSelecting(selections, v) > 0
    THEN INTERNAL_COLS(SelectionOrder[LastSelecting(selections, v)])
    ELSE v

\* rename_df_columns(df, selections).  Source column names never begin with
\* an underscore, so a renamed column never meets an existing one.
rename_df_columns(df, selections) ==
    LET newcols == {RenamedColumn(df, selections, v) : v \in df.cols}
        origin(c) == CHOOSE v \in df.cols : RenamedColumn(df, selections, v) = c
    IN DataFrame(newcols,
                 [i \in 1..Len(df.rows) |->
                     [c \in newcols |-> df.rows[i][origin(c)]]])

\* pd.to_datetime(df[col].astype(str), errors='coerce') of one cell of a
\* column of dates, blanks and texts that are no date: NaT unless a date.
to_datetime(c) == IF c.t = "date" THEN c ELSE NaN

date_cols_to_convert == {"_hire_date", "_enroll_date", "_birth_date", "_retire_date"}

\* Step 1.8 for one table: the date columns are converted; then the enroll
\* date fills the blanks of the hire date (Series.fillna in place, as pandas
\* 2 performs it) or, with no hire date column, is renamed to it; the enroll
\* date column is dropped.
ConvertDates(df) ==
    LET conv(r, c) == IF c \in date_cols_to_convert THEN to_datetime(r[c]) ELSE r[c]
        hasE == "_enroll_date" \in df.cols
        hasH == "_hire_date" \in df.cols
        newcols == IF hasE THEN (df.cols \ {"_enroll_date"}) \cup {"_hire_date"}
                   ELSE df.cols
        val(r, c) ==
            IF c = "_hire_date" /\ hasE
            THEN IF hasH
                 THEN IF isna(conv(r, "_hire_date")) THEN conv(r, "_enroll_date")
                      ELSE conv(r, "_hire_date")
                 ELSE conv(r, "_enroll_date")
            ELSE conv(r, c)
    IN IF df.none THEN df
       ELSE DataFrame(newcols,
                      [i \in 1..Len(df.rows) |->
                          [c \in newcols |-> val(df.rows[i], c)]])

-----------------------------------------------------------------------------
(* Step 2: the matching key                                                *)

key_col_name == "_key"

StrCell(chars) == [t |-> "str", n |-> 0, s |-> chars]

\* use_emp_id_key
UseEmpIdKey(df_prev, df_curr, df_retire) ==
    /\ "_emp_id" \in df_prev.cols
    /\ "_emp_id" \in df_curr.cols
    /\ (~df_retire.none => "_emp_id" \in df_retire.cols)

\* The date-composite key of one row.
DateKey(r) ==
    StrftimeFillna(r["_hire_date"]) \o UNDERSCORE \o StrftimeFillna(r["_birth_date"])

\* The employee-id key of one row.
EmpIdKey(r) == StrOfCell(r["_emp_id"])

\* The body of the key loop for one table whose key columns exist.
WithKey(df, use_emp_id_key) ==
    DataFrame(df.cols \cup {key_col_name},
              [i \in 1..Len(df.rows) |->
                  [c \in df.cols \cup {key_col_name} |->
                      IF c = key_col_name
                      THEN StrCell(IF use_emp_id_key THEN EmpIdKey(df.rows[i])
                                   ELSE DateKey(df.rows[i]))
                      ELSE df.rows[i][c]]])

\* The test of line 287 for one table: the date-composite key is wanted and
\* the table lacks a column of it.
LacksKeyColumns(df, use_emp_id_key) ==
    ~use_emp_id_key /\ ~({"_hire_date", "_birth_date"} \subseteq df.cols)

-----------------------------------------------------------------------------
(* Step 3: basic checks                                                    *)

\* The key of a row of a keyed table.
KeyOf(r) == r[key_col_name].s

\* duplicated() with its default keep='first': the first row of a key is not
\* marked.
DuplicatesKeepFirst(df) ==
    LET later == SelectSeq([i \in 1..Len(df.rows) |-> i],
                           LAMBDA i : \E j \in 1..(i - 1) :
                               df.rows[j][key_col_name] = df.rows[i][key_col_name])
    IN [df EXCEPT !.rows = [x \in 1..Len(later) |-> df.rows[later[x]]]]

\* df[df[key_col_name].duplicated(keep=False)]: every row whose key also is
\* the key of another row of the table.  (The sort by key that follows
\* changes the order of the rows only.)
Duplicates(df) ==
    LET n(k) == Cardinality({i \in 1..Len(df.rows) : KeyOf(df.rows[i]) = k})
    IN WithRows(df, SelectSeq(df.rows, LAMBDA r : n(KeyOf(r)) >= 2))

\* (hire_date - birth_date).dt.days of a row with both dates.
HireAgeDays(r) == DaysFromCivil(r["_hire_date"].n) - DaysFromCivil(r["_birth_date"].n)

\* The age rule with a year of 365 days.
InvalidAgeYearOf365Days(days) == days < 15 * 365 \/ days >= 90 * 365

\* (age < 15) | (age >= 90) for age = days / 365.25, in quarter days:
\* 365.25 days are 1461 quarter days.
InvalidAge(days) == 4 * days < 15 * 1461 \/ 4 * days >= 90 * 1461

\* df[hire_date] > relevant_date of one cell (False for NaT).
After(c, ymd) == notna(c) /\ c.n > ymd

ReasonAge == [t |-> "reason_age", n |-> 0, s |-> <<>>]
ReasonHire == [t |-> "reason_hire_date", n |-> 0, s |-> <<>>]

RECURSIVE DropDuplicateKeys(_, _)
\* drop_duplicates(subset=[key_col_name]) of a sequence of rows: the first
\* row of every key is kept; seen is the set of keys of the rows before.
DropDuplicateKeys(rows, seen) ==
    IF rows = <<>> THEN <<>>
    ELSE IF KeyOf(Head(rows)) \in seen THEN DropDuplicateKeys(Tail(rows), seen)
         ELSE <<Head(rows)>>
              \o DropDuplicateKeys(Tail(rows), seen \cup {KeyOf(Head(rows))})

\* invalid_age_df of lines 300-306, with its reason column (no row when the
\* date columns are missing).
InvalidAgeDf(df) ==
    IF {"_hire_date", "_birth_date"} \subseteq df.cols
    THEN WithColumn(WithRows(df, SelectSeq(df.rows,
                                           LAMBDA r : /\ notna(r["_hire_date"])
                                                      /\ notna(r["_birth_date"])
                                                      /\ InvalidAge(HireAgeDays(r)))),
                    "error_reason", ReasonAge)
    ELSE WithColumn([df EXCEPT !.rows = <<>>], "error_reason", ReasonAge)

\* invalid_hire_date_df of lines 307-310, with its reason column.
InvalidHireDateDf(df, relevant_date) ==
    IF "_hire_date" \in df.cols
    THEN WithColumn(WithRows(df, SelectSeq(df.rows,
                                           LAMBDA r : After(r["_hire_date"], relevant_date))),
                    "error_reason", ReasonHire)
    ELSE WithColumn([df EXCEPT !.rows = <<>>], "error_reason", ReasonHire)

\* df_with_reasons of line 312: the rows of the age rule, then those of the
\* hire date rule, one row per key kept.
DateValidity(df, relevant_date) ==
    LET both == Concat(InvalidAgeDf(df), InvalidHireDateDf(df, relevant_date))
    IN [both EXCEPT !.rows = DropDuplicateKeys(both.rows, {})]

\* The retire date rules of lines 314-323: retire_date <= prev_period_end
\* or retire_date > base_date, one row per key kept.
RetireDateValidity(df, prev_period_end_date, base) ==
    LET early == WithColumn(WithRows(df, SelectSeq(df.rows,
                                 LAMBDA r : /\ notna(r["_retire_date"])
                                            /\ r["_retire_date"].n <= prev_period_end_date)),
                            "error_reason",
                            [t |-> "reason_retire_early", n |-> 0, s |-> <<>>])
        late == WithColumn(WithRows(df, SelectSeq(df.rows,
                                                  LAMBDA r : After(r["_retire_date"], base))),
                           "error_reason",
                           [t |-> "reason_retire_late", n |-> 0, s |-> <<>>])
        both == Concat(early, late)
    IN [both EXCEPT !.rows = DropDuplicateKeys(both.rows, {})]

-----------------------------------------------------------------------------
(* Step 4: reconciliation                                                  *)

\* A join that looks up one row per key: the position of the first row of a
\* table that carries key k.
MatchesOfFirstOnly(df, k) ==
    LET every == SelectSeq([j \in 1..Len(df.rows) |-> j],
                           LAMBDA j : KeyOf(df.rows[j]) = k)
    IN IF every = <<>> THEN <<>> ELSE <<every[1]>>

\* The positions of the rows of a table that carry key k, in order.
MatchesOf(df, k) ==
    SelectSeq([j \in 1..Len(df.rows) |-> j], LAMBDA j : KeyOf(df.rows[j]) = k)

RECURSIVE LeftJoinPairs(_, _, _)
\* For the left rows from i on: <<i, j>> for every right row j of the same
\* key, or <<i, 0>> when there is none.
LeftJoinPairs(left, right, i) ==
    IF i > Len(left.rows) THEN <<>>
    ELSE LET m == MatchesOf(right, KeyOf(left.rows[i]))
         IN (IF m = <<>> THEN << <<i, 0>> >>
             ELSE [x \in 1..Len(m) |-> <<i, m[x]>>])
            \o LeftJoinPairs(left, right, i + 1)

\* An outer join that drops the rows of the right table alone (how='left').
RightOnlyPairsDropped(left, right) == <<>>

\* <<0, j>> for every right row j whose key no left row carries.
RightOnlyPairs(left, right) ==
    LET only == SelectSeq([j \in 1..Len(right.rows) |-> j],
                          LAMBDA j : MatchesOf(left, KeyOf(right.rows[j])) = <<>>)
    IN [x \in 1..Len(only) |-> <<0, only[x]>>]

\* The name pandas gives a column of the merge: a pair <<name, suffix>>
\* standing for name + suffix; the suffix is added to the columns the two
\* tables share.
MergedName(c, left, right, suffix) ==
    <<c, IF c \in left.cols /\ c \in right.cols THEN suffix ELSE "">>

MergeCell(kind) == [t |-> kind, n |-> 0, s |-> <<>>]

\* pd.merge(left, right, on=key_col_name, how='outer', suffixes=(sl, sr),
\* indicator=ind).  The rows are those of the outer join with their
\* multiplicities; pandas orders them by key, the model by the left table's
\* order followed by the right-only rows (nothing in the handler reads the
\* order).
Merge(left, right, sl, sr, ind) ==
    LET lc == left.cols \ {key_col_name}
        rc == right.cols \ {key_col_name}
        lnames == {MergedName(c, left, right, sl) : c \in lc}
        rnames == {MergedName(c, left, right, sr) : c \in rc}
        cols == {<<key_col_name, "">>, <<ind, "">>} \cup lnames \cup rnames
        pairs == LeftJoinPairs(left, right, 1) \o RightOnlyPairs(left, right)
        row(p) ==
            [mc \in cols |->
                IF mc = <<key_col_name, "">>
                THEN IF p[1] > 0 THEN left.rows[p[1]][key_col_name]
                     ELSE right.rows[p[2]][key_col_name]
                ELSE IF mc = <<ind, "">>
                THEN MergeCell(IF p[2] = 0 THEN "left_only"
                               ELSE IF p[1] = 0 THEN "right_only" ELSE "both")
                ELSE IF mc \in lnames
                THEN IF p[1] > 0 THEN left.rows[p[1]][mc[1]] ELSE NaN
                ELSE IF p[2] > 0 THEN right.rows[p[2]][mc[1]] ELSE NaN]
    IN DataFrame(cols, [x \in 1..Len(pairs) |-> row(pairs[x])])

\* merged_st[merged_st['_merge'] == kind].copy()
MergePart(merged, ind, kind) ==
    WithRows(merged, SelectSeq(merged.rows, LAMBDA r : r[<<ind, "">>].t = kind))

\* The key of a row of a merged table.
MergedKeyOf(r) == r[<<key_col_name, "">>].s

\* a != b of two cells of datetime columns: True unless both are the same
\* date (NaT differs from everything, NaT included).
CellsDiffer(a, b) == isna(a) \/ isna(b) \/ a # b

bdate_prev == <<"_birth_date", "_prev">>
bdate_curr == <<"_birth_date", "_curr">>
hdate_prev == <<"_hire_date", "_prev">>
hdate_curr == <<"_hire_date", "_curr">>

\* The test of line 331.
BasicInfoColumns(continuing_employees) ==
    {bdate_prev, bdate_curr, hdate_prev, hdate_curr} \subseteq continuing_employees.cols

\* changed_df of lines 332-335.
ChangedDf(continuing_employees) ==
    LET changed ==
            WithRows(continuing_employees,
                     SelectSeq(continuing_employees.rows,
                               LAMBDA r : \/ CellsDiffer(r[bdate_prev], r[bdate_curr])
                                          \/ CellsDiffer(r[hdate_prev], r[hdate_curr])))
    IN DataFrame(changed.cols \cup {<<"error_reason", "">>},
                 [i \in 1..Len(changed.rows) |->
                     [c \in changed.cols \cup {<<"error_reason", "">>} |->
                         IF c = <<"error_reason", "">>
                         THEN MergeCell("reason_basic_info") ELSE changed.rows[i][c]]])

\* retiree_candidates[[key_col_name]]: the key column alone.
KeyFrame(merged) ==
    DataFrame({key_col_name},
              [i \in 1..Len(merged.rows) |->
                  [c \in {key_col_name} |-> merged.rows[i][<<key_col_name, "">>]]])

\* The keys of the retiree merge whatever the indicator says.
RetireMergeKeysAnyKind(merged_retire, kind) ==
    {r[<<key_col_name, "">>].s :
        r \in {merged_retire.rows[j] : j \in 1..Len(merged_retire.rows)}}

\* merged_retire[merged_retire['retire_merge'] == kind][key_col_name]
RetireMergeKeys(merged_retire, kind) ==
    {MergedKeyOf(merged_retire.rows[i]) :
        i \in {j \in 1..Len(merged_retire.rows) :
                  merged_retire.rows[j][<<"retire_merge", "">>].t = kind}}

-----------------------------------------------------------------------------
(* The button handler, stage by stage                                       *)

\* retire_file_is_used
RetireFileIsUsed(sel_curr) == sel_curr["retire_date"] = NONE_OPTION

\* Steps 1 and 1.5 with the retiree file treated as the required files are:
\* a retiree file that does not load stops the run.
LoadStageRetireRequired(fp, fc, fr, sel_prev, sel_curr, sel_retire) ==
    LET p0 == find_header_and_read_excel(fp)
        c0 == find_header_and_read_excel(fc)
        p1 == rename_df_columns(p0, sel_prev)
        c1 == rename_df_columns(c0, sel_curr)
        extract == ~RetireFileIsUsed(sel_curr) /\ "_retire_date" \in c1.cols
        r0 == find_header_and_read_excel(fr)
    IN IF p0.none \/ c0.none
       THEN [status |-> "stop", df_prev |-> NoneDf, df_curr |-> NoneDf,
             df_retire |-> NoneDf, retire_file_read |-> FALSE]
       ELSE IF extract
       THEN [status |-> "ok", df_prev |-> p1,
             df_curr |-> WithRows(c1, SelectSeq(c1.rows, LAMBDA r : isna(r["_retire_date"]))),
             df_retire |-> WithRows(c1, SelectSeq(c1.rows, LAMBDA r : notna(r["_retire_date"]))),
             retire_file_read |-> FALSE]
       ELSE IF fr.present
       THEN IF r0.none
            THEN [status |-> "stop", df_prev |-> NoneDf, df_curr |-> NoneDf,
                  df_retire |-> NoneDf, retire_file_read |-> TRUE]
            ELSE IF RetireFileIsUsed(sel_curr)
            THEN [status |-> "ok", df_prev |-> p1, df_curr |-> c1,
                  df_retire |-> rename_df_columns(r0, sel_retire),
                  retire_file_read |-> TRUE]
            ELSE [status |-> "exception", df_prev |-> p1, df_curr |-> c1,
                  df_retire |-> r0, retire_file_read |-> TRUE]
       ELSE [status |-> "ok", df_prev |-> p1, df_curr |-> c1,
             df_retire |-> NoneDf, retire_file_read |-> FALSE]

\* Steps 1 and 1.5 (lines 250-263): the tables as loaded and renamed, the
\* retirees taken out of the current table or read from the retiree file.
\* status is "stop" when a required table did not load (st.stop), "exception"
\* when line 263 uses selections_retire, a name line 244 binds only if
\* retire_file_is_used, and "ok" otherwise.
LoadStage(fp, fc, fr, sel_prev, sel_curr, sel_retire) ==
    LET p0 == find_header_and_read_excel(fp)
        c0 == find_header_and_read_excel(fc)
        p1 == rename_df_columns(p0, sel_prev)
        c1 == rename_df_columns(c0, sel_curr)
        extract == ~RetireFileIsUsed(sel_curr) /\ "_retire_date" \in c1.cols
        r0 == find_header_and_read_excel(fr)
    IN IF p0.none \/ c0.none
       THEN [status |-> "stop", df_prev |-> NoneDf, df_curr |-> NoneDf,
             df_retire |-> NoneDf, retire_file_read |-> FALSE]
       ELSE IF extract
       THEN [status |-> "ok", df_prev |-> p1,
             df_curr |-> WithRows(c1, SelectSeq(c1.rows, LAMBDA r : isna(r["_retire_date"]))),
             df_retire |-> WithRows(c1, SelectSeq(c1.rows, LAMBDA r : notna(r["_retire_date"]))),
             retire_file_read |-> FALSE]
       ELSE IF fr.present
       THEN IF r0.none
            THEN [status |-> "ok", df_prev |-> p1, df_curr |-> c1,
                  df_retire |-> NoneDf, retire_file_read |-> TRUE]
            ELSE IF RetireFileIsUsed(sel_curr)
            THEN [status |-> "ok", df_prev |-> p1, df_curr |-> c1,
                  df_retire |-> rename_df_columns(r0, sel_retire),
                  retire_file_read |-> TRUE]
            ELSE [status |-> "exception", df_prev |-> p1, df_curr |-> c1,
                  df_retire |-> r0, retire_file_read |-> TRUE]
       ELSE [status |-> "ok", df_prev |-> p1, df_curr |-> c1,
             df_retire |-> NoneDf, retire_file_read |-> FALSE]

\* The key step with a retiree table that lacks a column of the
\* date-composite key left out of the run instead of stopping it.
KeyStageSkippingRetiree(loaded) ==
    LET p == ConvertDates(loaded.df_prev)
        c == ConvertDates(loaded.df_curr)
        r0 == ConvertDates(loaded.df_retire)
        use == UseEmpIdKey(p, c, r0)
        r == IF ~r0.none /\ LacksKeyColumns(r0, use) THEN NoneDf ELSE r0
        stopped == IF LacksKeyColumns(p, use) THEN "prev"
                   ELSE IF LacksKeyColumns(c, use) THEN "curr"
                   ELSE "none"
    IN [use_emp_id_key |-> use,
        stopped_at |-> stopped,
        df_prev |-> IF stopped # "prev" THEN WithKey(p, use) ELSE p,
        df_curr |-> IF stopped = "none" THEN WithKey(c, use) ELSE c,
        df_retire |-> IF stopped = "none" /\ ~r.none THEN WithKey(r, use) ELSE r]

\* Steps 1.8 and 2 (lines 265-291) on the loaded tables: the key strategy,
\* and the tables with their key; the loop stops the run (st.stop) at the
\* first table, in the order 前期末, 当期末, 退職者, that lacks a column of
\* the date-composite key.
KeyStage(loaded) ==
    LET p == ConvertDates(loaded.df_prev)
        c == ConvertDates(loaded.df_curr)
        r == ConvertDates(loaded.df_retire)
        use == UseEmpIdKey(p, c, r)
        stopped == IF LacksKeyColumns(p, use) THEN "prev"
                   ELSE IF LacksKeyColumns(c, use) THEN "curr"
                   ELSE IF ~r.none /\ LacksKeyColumns(r, use) THEN "retire"
                   ELSE "none"
    IN [use_emp_id_key |-> use,
        stopped_at |-> stopped,
        df_prev |-> IF stopped # "prev" THEN WithKey(p, use) ELSE p,
        df_curr |-> IF stopped \in {"none", "retire"} THEN WithKey(c, use) ELSE c,
        df_retire |-> IF stopped = "none" /\ ~r.none THEN WithKey(r, use) ELSE r]

\* The results dict: a function from the names of the finding sets and
\* partitions to their tables.  The names stand for the sheet names:
\*   dup_prev, dup_curr, dup_retire      キー重複_前期末 / _当期末 / _退職者
\*   date_prev, date_curr, date_retire   日付妥当性エラー_前期末 / _当期末 / _退職者
\*   new_hires                           入社者候補
\*   basic_info_change                   基本情報変更エラー
\*   retiree_missing                     退職者候補（退職者データ不突合）
\*   retiree_surplus                     退職者データ過剰（前期末データ不突合）
\*   retiree_matched                     マッチした退職者
\*   retiree_candidates                  退職者候補
\*   continuing                          在籍者
NoResults == [x \in {} |-> NoneDf]

\* results[name] = df when the handler makes the assignment, nothing otherwise.
Entry(assigned, name, df) == IF assigned THEN name :> df ELSE NoResults

\* Steps 3 to 4.8 (lines 293-346) on the keyed tables.
CheckStage(k, base) ==
    LET p == k.df_prev
        c == k.df_curr
        r == k.df_retire
        prev_period_end_date == MinusOneYear(base)
        dv_prev == DateValidity(p, prev_period_end_date)
        dv_curr == DateValidity(c, base)
        dv_retire == RetireDateValidity(r, prev_period_end_date, base)
        merged_st == Merge(p, c, "_prev", "_curr", "_merge")
        retiree_candidates == MergePart(merged_st, "_merge", "left_only")
        new_hires == MergePart(merged_st, "_merge", "right_only")
        continuing_employees == MergePart(merged_st, "_merge", "both")
        merged_retire == Merge(KeyFrame(retiree_candidates), r, "_x", "_y", "retire_merge")
        keys(kind) == RetireMergeKeys(merged_retire, kind)
    IN [retiree_candidates |-> retiree_candidates,
        results |->
            Entry(TRUE, "dup_prev", Duplicates(p))
            @@ Entry(TRUE, "dup_curr", Duplicates(c))
            @@ Entry(~r.none, "dup_retire", Duplicates(r))
            @@ Entry(dv_prev.rows # <<>>, "date_prev", dv_prev)
            @@ Entry(dv_curr.rows # <<>>, "date_curr", dv_curr)
            @@ Entry(~r.none /\ "_retire_date" \in r.cols /\ dv_retire.rows # <<>>,
                     "date_retire", dv_retire)
            @@ Entry(TRUE, "new_hires", new_hires)
            @@ Entry(BasicInfoColumns(continuing_employees), "basic_info_change",
                     ChangedDf(continuing_employees))
            @@ Entry(~r.none, "retiree_missing",
                     WithRows(retiree_candidates,
                              SelectSeq(retiree_candidates.rows,
                                        LAMBDA x : MergedKeyOf(x) \in keys("left_only"))))
            @@ Entry(~r.none, "retiree_surplus",
                     WithRows(r, SelectSeq(r.rows, LAMBDA x : KeyOf(x) \in keys("right_only"))))
            @@ Entry(~r.none, "retiree_matched",
                     WithRows(r, SelectSeq(r.rows, LAMBDA x : KeyOf(x) \in keys("both"))))
            @@ Entry(r.none, "retiree_candidates", retiree_candidates)
            @@ Entry(TRUE, "continuing", continuing_employees)]

-----------------------------------------------------------------------------
(* Step 5: salary checks                                                   *)

\* A cell holds a number.
IsNum(c) == c.t \in {"int", "float"}

\* The value of an expression of Python that raises TypeError.
TypeError == [t |-> "TypeError", n |-> 0, s |-> <<>>]

\* The text is made of decimal digits.
IsDigits(s) == s # <<>> /\ \A i \in 1..Len(s) : s[i] \in 48..57

RECURSIVE IntOfDigits(_)
\* int(s), and float(s), of a text of decimal digits.
IntOfDigits(s) ==
    IF s = <<>> THEN 0
    ELSE 10 * IntOfDigits(SubSeq(s, 1, Len(s) - 1)) + (s[Len(s)] - 48)

\* pd.to_numeric(column, errors='coerce') of one cell: a number stays, a
\* text of digits is its number, any other text (texts of digits and of
\* letters are modelled) and a blank are NaN.
to_numeric(c) ==
    IF c.t = "text"
    THEN IF IsDigits(c.s) THEN IntCell(IntOfDigits(c.s)) ELSE NaN
    ELSE c

\* DataFrame.update of one cell: the new value where it is not NaN, the old
\* value where it is.
UpdateCell(old, new) == IF isna(new) THEN old ELSE new

\* check_df = df.copy(); check_df.update({col: pd.to_numeric(check_df[col],
\* errors='coerce')}) for the columns cols; check_df.dropna(subset=cols).
NumericPool(df, cols) ==
    WithRows(df,
             SelectSeq([i \in 1..Len(df.rows) |->
                           [c \in df.cols |->
                               IF c \in cols
                               THEN UpdateCell(df.rows[i][c], to_numeric(df.rows[i][c]))
                               ELSE df.rows[i][c]]],
                       LAMBDA r : \A c \in cols : notna(r[c])))

RECURSIVE Repeat(_, _)
\* s * k of a str and an int.
Repeat(s, k) == IF k <= 0 THEN <<>> ELSE s \o Repeat(s, k - 1)

\* a * y for an int y: of a number, or of a str (repetition).
Times(a, y) ==
    IF IsNum(a) THEN IntCell(a.n * y)
    ELSE IF a.t = "text" THEN TextCell(Repeat(a.s, y))
    ELSE TypeError

\* a + b: of two numbers, or of two strs (concatenation).
Plus(a, b) ==
    IF IsNum(a) /\ IsNum(b) THEN IntCell(a.n + b.n)
    ELSE IF a.t = "text" /\ b.t = "text" THEN TextCell(a.s \o b.s)
    ELSE TypeError

RECURSIVE LexLess(_, _)
\* s < t of two strs.
LexLess(s, t) ==
    IF t = <<>> THEN FALSE
    ELSE IF s = <<>> THEN TRUE
    ELSE IF Head(s) # Head(t) THEN Head(s) < Head(t)
    ELSE LexLess(Tail(s), Tail(t))

\* a < b: "T" or "F", or "E" when Python raises TypeError (a str against a
\* number).
Less(a, b) ==
    IF IsNum(a) /\ IsNum(b) THEN (IF a.n < b.n THEN "T" ELSE "F")
    ELSE IF a.t = "text" /\ b.t = "text" THEN (IF LexLess(a.s, b.s) THEN "T" ELSE "F")
    ELSE "E"

\* The double 1 + x / 100 for the percentages x the model uses: it is
\* (100 + x) / 100 + FactorError[x] / (100 * 2^52), e.g. the double 1.1 is
\* 1.1 + 40 / (100 * 2^52).
FactorError == (0 :> 0) @@ (5 :> 20) @@ (10 :> 40) @@ (20 :> -20)

RECURSIVE Log2Floor(_)
Log2Floor(n) == IF n < 2 THEN 0 ELSE 1 + Log2Floor(n \div 2)

\* For a number n >= 0 with n * (100 + x) = 100 * N: whether the double
\* n * (1 + x / 100), rounded to nearest, is above N (1), below N (-1) or N
\* itself (0).  The exact product is N + n * FactorError[x] / (100 * 2^52);
\* the doubles next to N are 2^(e - 52) away for 2^e <= N < 2^(e + 1)
\* (2^(e - 53) below a power of two), and a tie goes to N.
ProductRounding(n, x) ==
    IF n * (100 + x) = 0 THEN 0
    ELSE IF n * FactorError[x] > 50 * 2^Log2Floor((n * (100 + x)) \div 100) THEN 1
    ELSE IF -(n * FactorError[x])
               > (IF (n * (100 + x)) \div 100 = 2^Log2Floor((n * (100 + x)) \div 100)
                  THEN 25 ELSE 50) * 2^Log2Floor((n * (100 + x)) \div 100)
    THEN -1
    ELSE 0

\* c >= a * (1 + x / 100) in doubles, for numbers c and a >= 0: "E" when a
\* or c is a str.
AtLeastProduct(c, a, x) ==
    IF ~(IsNum(c) /\ IsNum(a)) THEN "E"
    ELSE IF (a.n * (100 + x)) % 100 # 0
    THEN (IF c.n > (a.n * (100 + x)) \div 100 THEN "T" ELSE "F")
    ELSE IF ProductRounding(a.n, x) = 1
    THEN (IF c.n > (a.n * (100 + x)) \div 100 THEN "T" ELSE "F")
    ELSE (IF c.n >= (a.n * (100 + x)) \div 100 THEN "T" ELSE "F")

\* c > a * (1 + x / 100) in doubles.
AboveProduct(c, a, x) ==
    IF ~(IsNum(c) /\ IsNum(a)) THEN "E"
    ELSE IF (a.n * (100 + x)) % 100 # 0
    THEN (IF c.n > (a.n * (100 + x)) \div 100 THEN "T" ELSE "F")
    ELSE IF ProductRounding(a.n, x) = -1
    THEN (IF c.n >= (a.n * (100 + x)) \div 100 THEN "T" ELSE "F")
    ELSE (IF c.n > (a.n * (100 + x)) \div 100 THEN "T" ELSE "F")

\* The columns of the merge that hold the prior and the current value of
\* column c.
PrevOf(c) == <<c, "_prev">>
CurrOf(c) == <<c, "_curr">>

\* The decrease rule with <= in place of <.
DecreaseMaskOrEqual(pool, a) ==
    [i \in 1..Len(pool.rows) |->
        IF pool.rows[i][CurrOf(a)] = pool.rows[i][PrevOf(a)] THEN "T"
        ELSE Less(pool.rows[i][CurrOf(a)], pool.rows[i][PrevOf(a)])]

\* The boolean mask of each rule over the rows of its pool, "E" where the
\* comparison raises TypeError.
DecreaseMask(pool, a) ==
    [i \in 1..Len(pool.rows) |-> Less(pool.rows[i][CurrOf(a)], pool.rows[i][PrevOf(a)])]

IncreaseMask(pool, a, x) ==
    [i \in 1..Len(pool.rows) |->
        AtLeastProduct(pool.rows[i][CurrOf(a)], pool.rows[i][PrevOf(a)], x)]

CumulativeLowMask(pool, a, b, y) ==
    [i \in 1..Len(pool.rows) |->
        IF Plus(pool.rows[i][PrevOf(b)], Times(pool.rows[i][PrevOf(a)], y)) = TypeError
        THEN "E"
        ELSE Less(pool.rows[i][CurrOf(b)],
                  Plus(pool.rows[i][PrevOf(b)], Times(pool.rows[i][PrevOf(a)], y)))]

CumulativeHighMask(pool, a, b, y, z) ==
    [i \in 1..Len(pool.rows) |->
        AboveProduct(pool.rows[i][CurrOf(b)],
                     Plus(pool.rows[i][PrevOf(b)], Times(pool.rows[i][PrevOf(a)], y)), z)]

\* pool[mask]
Masked(pool, mask) ==
    LET kept == SelectSeq([i \in 1..Len(pool.rows) |-> i], LAMBDA i : mask[i] = "T")
    IN WithRows(pool, [x \in 1..Len(kept) |-> pool.rows[kept[x]]])

Raises(mask) == \E i \in 1..Len(mask) : mask[i] = "E"

\* The result names of the rules of the salary group g (1 or 3) stand for
\* 給与減額エラー(g), 給与増加率エラー(g), 累計給与エラー(g-1), 累計給与エラー(g-2).
RuleName(g, rule) ==
    CASE rule = "decrease" -> IF g = 1 THEN "salary_decrease_1" ELSE "salary_decrease_3"
      [] rule = "increase" -> IF g = 1 THEN "salary_increase_1" ELSE "salary_increase_3"
      [] rule = "cumulative_low" -> IF g = 1 THEN "cumulative_1_1" ELSE "cumulative_3_1"
      [] OTHER -> IF g = 1 THEN "cumulative_1_2" ELSE "cumulative_3_2"

\* The two cumulative rules of a group on check_df_sal2 (check_df_sal4).
CumulativeChecks(pool, a, b, g, c) ==
    [raised |->
        \/ c.cum_low /\ Raises(CumulativeLowMask(pool, a, b, IntOfDigits(c.y)))
        \/ /\ c.cum_high /\ IsDigits(c.z)
           /\ Raises(CumulativeHighMask(pool, a, b, IntOfDigits(c.y), IntOfDigits(c.z))),
     results |->
        Entry(c.cum_low, RuleName(g, "cumulative_low"),
              Masked(pool, CumulativeLowMask(pool, a, b, IntOfDigits(c.y))))
        @@ Entry(c.cum_high /\ IsDigits(c.z), RuleName(g, "cumulative_high"),
                 Masked(pool, CumulativeHighMask(pool, a, b, IntOfDigits(c.y),
                                                 IntOfDigits(c.z))))]

NoChecks == [raised |-> FALSE, results |-> NoResults]

\* The rules of a group with the ValueError of float(x) not caught: a rate
\* that is no number ends the run in the handler of lines 504-505.
SalaryChecksOnRateRaises(pool, a, b, g, c) ==
    [raised |->
        \/ c.decrease /\ Raises(DecreaseMask(pool, a))
        \/ c.increase /\ ~IsDigits(c.x)
        \/ c.increase /\ IsDigits(c.x) /\ Raises(IncreaseMask(pool, a, IntOfDigits(c.x)))
        \/ /\ ~c.cum_disabled
           /\ {PrevOf(b), CurrOf(b)} \subseteq pool.cols
           /\ CumulativeChecks(NumericPool(pool, {PrevOf(b), CurrOf(b)}), a, b, g, c).raised,
     results |->
        Entry(c.decrease, RuleName(g, "decrease"), Masked(pool, DecreaseMask(pool, a)))
        @@ Entry(c.increase /\ IsDigits(c.x), RuleName(g, "increase"),
                 Masked(pool, IncreaseMask(pool, a, IntOfDigits(c.x))))
        @@ (IF ~c.cum_disabled /\ {PrevOf(b), CurrOf(b)} \subseteq pool.cols
            THEN CumulativeChecks(NumericPool(pool, {PrevOf(b), CurrOf(b)}),
                                  a, b, g, c).results
            ELSE NoResults)]

\* The rules of a group on check_df_sal1 (check_df_sal3): a the salary
\* column, b the cumulative one, c the group's toggles and parameters.
SalaryChecksOn(pool, a, b, g, c) ==
    [raised |->
        \/ c.decrease /\ Raises(DecreaseMask(pool, a))
        \/ c.increase /\ IsDigits(c.x) /\ Raises(IncreaseMask(pool, a, IntOfDigits(c.x)))
        \/ /\ ~c.cum_disabled
           /\ {PrevOf(b), CurrOf(b)} \subseteq pool.cols
           /\ CumulativeChecks(NumericPool(pool, {PrevOf(b), CurrOf(b)}), a, b, g, c).raised,
     results |->
        Entry(c.decrease, RuleName(g, "decrease"), Masked(pool, DecreaseMask(pool, a)))
        @@ Entry(c.increase /\ IsDigits(c.x), RuleName(g, "increase"),
                 Masked(pool, IncreaseMask(pool, a, IntOfDigits(c.x))))
        @@ (IF ~c.cum_disabled /\ {PrevOf(b), CurrOf(b)} \subseteq pool.cols
            THEN CumulativeChecks(NumericPool(pool, {PrevOf(b), CurrOf(b)}),
                                  a, b, g, c).results
            ELSE NoResults)]

\* Lines 349-366 for group 1 and 368-385 for group 3: skipped when the
\* salary column is not on both sides of the merge.
SalaryChecks(continuing_employees, a, b, g, c) ==
    IF {PrevOf(a), CurrOf(a)} \subseteq continuing_employees.cols
    THEN SalaryChecksOn(NumericPool(continuing_employees, {PrevOf(a), CurrOf(a)}),
                        a, b, g, c)
    ELSE NoChecks

\* The toggles and parameters of group 1 as lines 196-209 leave them.
Group1(sel_prev, sel_curr, w) ==
    [decrease |-> w.check_salary_decrease_1,
     increase |-> w.check_salary_increase_1,
     x |-> w.increase_rate_x1,
     cum_disabled |-> sel_prev["salary2"] = NONE_OPTION \/ sel_curr["salary2"] = NONE_OPTION,
     cum_low |-> /\ ~(sel_prev["salary2"] = NONE_OPTION \/ sel_curr["salary2"] = NONE_OPTION)
                 /\ w.check_cumulative_salary_1_ui,
     y |-> w.months_y1,
     cum_high |-> /\ ~(sel_prev["salary2"] = NONE_OPTION \/ sel_curr["salary2"] = NONE_OPTION)
                  /\ w.check_cumulative_salary_2_ui,
     z |-> w.allowance_rate_z1]

salary3_checks_disabled(sel_prev, sel_curr) ==
    sel_prev["salary3"] = NONE_OPTION \/ sel_curr["salary3"] = NONE_OPTION

cumulative_checks_disabled_34(sel_prev, sel_curr) ==
    \/ sel_prev["salary4"] = NONE_OPTION \/ sel_curr["salary4"] = NONE_OPTION
    \/ salary3_checks_disabled(sel_prev, sel_curr)

\* The toggles and parameters of group 3 as lines 213-228 leave them.
Group3(sel_prev, sel_curr, w) ==
    [decrease |-> ~salary3_checks_disabled(sel_prev, sel_curr) /\ w.check_salary_decrease_3_ui,
     increase |-> ~salary3_checks_disabled(sel_prev, sel_curr) /\ w.check_salary_increase_3_ui,
     x |-> w.increase_rate_x3,
     cum_disabled |-> cumulative_checks_disabled_34(sel_prev, sel_curr),
     cum_low |-> /\ ~cumulative_checks_disabled_34(sel_prev, sel_curr)
                 /\ w.check_cumulative_salary_3_ui,
     y |-> w.months_y3,
     cum_high |-> /\ ~cumulative_checks_disabled_34(sel_prev, sel_curr)
                  /\ w.check_cumulative_salary_4_ui,
     z |-> w.allowance_rate_z3]

\* Step 5 (lines 348-387): the rules of group 1, then those of group 3.
SalaryStage(continuing_employees, g1, g3) ==
    [raised |-> \/ SalaryChecks(continuing_employees, "_salary1", "_salary2", 1, g1).raised
                \/ SalaryChecks(continuing_employees, "_salary3", "_salary4", 3, g3).raised,
     results |-> SalaryChecks(continuing_employees, "_salary1", "_salary2", 1, g1).results
                 @@ SalaryChecks(continuing_employees, "_salary3", "_salary4", 3, g3).results]

-----------------------------------------------------------------------------
(* Steps 6 and 7: summary and workbook                                     *)

\* len(results.get(name, []))
LenGet(results, name) ==
    IF name \in DOMAIN results THEN Len(results[name].rows) ELSE 0

\* Step 6, lines 390-415: summary_info and summary_errors in one dict.  The
\* names stand for the metric names 前期従業員データ数, 当期従業員データ数,
\* 在籍者数, マッチした退職者, 当期退職者データ数, キー重複, 日付妥当性エラー,
\* 基本情報変更エラー, 入社者候補, the eight salary rules (under their result
\* names), 退職者候補（不突合）, 退職者データ過剰 and 退職者候補.
SummaryMetrics(k, results) ==
    ("n_prev" :> Len(k.df_prev.rows))
    @@ ("n_curr" :> Len(k.df_curr.rows))
    @@ ("n_continuing" :> LenGet(results, "continuing"))
    @@ ("n_retiree_matched" :> LenGet(results, "retiree_matched"))
    @@ (IF ~k.df_retire.none THEN "n_retire" :> Len(k.df_retire.rows)
        ELSE [x \in {} |-> 0])
    @@ ("key_dup" :> LenGet(results, "dup_prev") + LenGet(results, "dup_curr")
                     + LenGet(results, "dup_retire"))
    @@ ("date_errors" :> LenGet(results, "date_prev") + LenGet(results, "date_curr")
                         + LenGet(results, "date_retire"))
    @@ ("basic_info_change" :> LenGet(results, "basic_info_change"))
    @@ ("new_hires" :> LenGet(results, "new_hires"))
    @@ [name \in {"salary_decrease_1", "salary_increase_1", "cumulative_1_1",
                  "cumulative_1_2", "salary_decrease_3", "salary_increase_3",
                  "cumulative_3_1", "cumulative_3_2"} |-> LenGet(results, name)]
    @@ (IF ~k.df_retire.none
        THEN ("retiree_missing" :> LenGet(results, "retiree_missing"))
             @@ ("retiree_surplus" :> LenGet(results, "retiree_surplus"))
        ELSE "retiree_candidates" :> LenGet(results, "retiree_candidates"))

\* Lines 417-500: the workbook, as the counts its summary sheet lists and
\* the number of rows of each sheet; a sheet is written for every result
\* that is not empty.
Workbook(metrics, results) ==
    [none |-> FALSE,
     summary |-> metrics,
     sheets |-> [name \in {x \in DOMAIN results : results[x].rows # <<>>} |->
                    Len(results[name].rows)]]

NoWorkbook == [none |-> TRUE, summary |-> [x \in {} |-> 0], sheets |-> [x \in {} |-> 0]]

\* What a run leaves when it ends before the checks.
Ended(status, stopped_at, loaded) ==
    [status |-> status,
     stopped_at |-> stopped_at,
     use_emp_id_key |-> FALSE,
     retire_file_read |-> loaded.retire_file_read,
     df_prev |-> loaded.df_prev,
     df_curr |-> loaded.df_curr,
     df_retire |-> loaded.df_retire,
     retiree_candidates |-> NoneDf,
     results |-> NoResults,
     summary |-> [x \in {} |-> 0],
     workbook |-> NoWorkbook]

NothingLoaded ==
    [status |-> "ok", df_prev |-> NoneDf, df_curr |-> NoneDf, df_retire |-> NoneDf,
     retire_file_read |-> FALSE]

\* Lines 389-502 on the results of the checks: the summary and the workbook.
Completed(loaded, k, retiree_candidates, results, metrics) ==
    [status |-> "complete",
     stopped_at |-> "none",
     use_emp_id_key |-> k.use_emp_id_key,
     retire_file_read |-> loaded.retire_file_read,
     df_prev |-> k.df_prev,
     df_curr |-> k.df_curr,
     df_retire |-> k.df_retire,
     retiree_candidates |-> retiree_candidates,
     results |-> results,
     summary |-> metrics,
     workbook |-> Workbook(metrics, results)]

\* A run that ends after the key step without results: st.stop() of line
\* 288, or an exception of the salary checks.
EndedKeyed(status, loaded, k) ==
    [Ended(status, k.stopped_at, loaded) EXCEPT
        !.use_emp_id_key = k.use_emp_id_key,
        !.df_prev = k.df_prev, !.df_curr = k.df_curr,
        !.df_retire = k.df_retire]

\* Lines 389-502 on the results of all checks.
AfterSalary(loaded, k, retiree_candidates, results) ==
    Completed(loaded, k, retiree_candidates, results, SummaryMetrics(k, results))

\* Lines 347-502 on the results of steps 3 to 4.8: a TypeError of a salary
\* rule ends the run in the handler of lines 504-505.
AfterChecks(loaded, k, ch, sal) ==
    IF sal.raised THEN EndedKeyed("exception", loaded, k)
    ELSE AfterSalary(loaded, k, ch.retiree_candidates, ch.results @@ sal.results)

\* Lines 293-502 on the keyed tables.
AfterKeyed(loaded, k, ch, g1, g3) ==
    AfterChecks(loaded, k, ch, SalaryStage(ch.results["continuing"], g1, g3))

\* Lines 284-502 on the key stage's outcome.
AfterKeys(loaded, k, base, g1, g3) ==
    IF k.stopped_at # "none" THEN EndedKeyed("stop_key", loaded, k)
    ELSE AfterKeyed(loaded, k, CheckStage(k, base), g1, g3)

\* Lines 265-502 on the loaded tables.
AfterLoad(loaded, base, g1, g3) ==
    IF loaded.status = "stop" THEN Ended("stop_load", "none", loaded)
    ELSE IF loaded.status = "exception" THEN Ended("exception", "none", loaded)
    ELSE AfterKeys(loaded, KeyStage(loaded), base, g1, g3)

\* The body of `if st.button("チェック開始")` (lines 231-507) as a function of
\* the widgets' values.  status is
\*   "no_files"   the warning of line 507: a required file is not uploaded;
\*   "stop_load"  st.stop() of line 252;
\*   "stop_key"   st.stop() of line 288 (stopped_at names the table);
\*   "exception"  the handler of lines 504-505;
\*   "complete"   line 502 was reached.
\* w holds the widgets of the salary check panel.
RunCheck(fp, fc, fr, sel_prev, sel_curr, sel_retire, base, w) ==
    IF ~(fp.present /\ fc.present) THEN Ended("no_files", "none", NothingLoaded)
    ELSE AfterLoad(LoadStage(fp, fc, fr, sel_prev, sel_curr, sel_retire), base,
                   Group1(sel_prev, sel_curr, w), Group3(sel_prev, sel_curr, w))

\* No run has been started in this session.
Idle == Ended("idle", "none", NothingLoaded)

-----------------------------------------------------------------------------
(* Actions                                                                 *)

\* The button handler that leaves processing_complete as it was when the
\* run does not complete (line 231 left out).
CheckStartKeepingFlag ==
    /\ run' = RunCheck(file_prev, file_curr, file_retire, selections_prev,
                       selections_curr, selections_retire, base_date, salary_checks)
    /\ processing_complete' = (run'.status = "complete" \/ processing_complete)
    /\ summary_metrics' = IF run'.status = "complete" THEN run'.summary
                          ELSE summary_metrics
    /\ processed_data' = IF run'.status = "complete" THEN run'.workbook
                         ELSE processed_data
    /\ UNCHANGED <<file_prev, file_curr, file_retire, selections_prev,
                   selections_curr, selections_retire, base_date, salary_checks>>

\* The script run in which the button was pressed.
CheckStart ==
    /\ run' = RunCheck(file_prev, file_curr, file_retire, selections_prev,
                       selections_curr, selections_retire, base_date, salary_checks)
    /\ processing_complete' = (run'.status = "complete")
    /\ summary_metrics' = IF run'.status = "complete" THEN run'.summary
                          ELSE summary_metrics
    /\ processed_data' = IF run'.status = "complete" THEN run'.workbook
                         ELSE processed_data
    /\ UNCHANGED <<file_prev, file_curr, file_retire, selections_prev,
                   selections_curr, selections_retire, base_date, salary_checks>>

\* What a run that reached step 6 leaves when the workbook cannot be
\* assembled: the exception handler of lines 504-505 after line 415.
Unstamped(r) ==
    IF r.status = "complete"
    THEN [r EXCEPT !.status = "exception", !.workbook = NoWorkbook]
    ELSE r

\* The script run in which the button was pressed while lines 49-55 left
\* last_updated unbound (the script's modification time or the time zone
\* Asia/Tokyo could not be read, the exception passed over in line 54): a
\* run that gets through step 5 stores its summary (line 415) and raises at
\* lines 421-422, before processed_data and processing_complete are set.
CheckStartUnstamped ==
    /\ run' = Unstamped(RunCheck(file_prev, file_curr, file_retire, selections_prev,
                                 selections_curr, selections_retire, base_date,
                                 salary_checks))
    /\ processing_complete' = FALSE
    /\ summary_metrics' = IF DOMAIN run'.summary # {} THEN run'.summary
                          ELSE summary_metrics
    /\ UNCHANGED <<processed_data, file_prev, file_curr, file_retire, selections_prev,
                   selections_curr, selections_retire, base_date, salary_checks>>

\* A script run without the button pressed: the session state is displayed
\* and left as it is.
Rerun == UNCHANGED vars

\* The display of lines 509-550: the summary table and the download button.
SummaryTableShown == processing_complete /\ DOMAIN summary_metrics # {}
DownloadOffered == processing_complete /\ ~processed_data.none

Next == CheckStart \/ Rerun

\* The session state of lines 43-46 with the widgets holding the values u.
InitWith(u) ==
    /\ file_prev = u.file_prev
    /\ file_curr = u.file_curr
    /\ file_retire = u.file_retire
    /\ selections_prev = u.selections_prev
    /\ selections_curr = u.selections_curr
    /\ selections_retire = u.selections_retire
    /\ base_date = u.base_date
    /\ salary_checks = u.salary_checks
    /\ processing_complete = FALSE
    /\ summary_metrics = [x \in {} |-> 0]
    /\ processed_data = NoWorkbook
    /\ run = Idle

-----------------------------------------------------------------------------
(* The widgets' values the runs are checked over                            *)

\* An uploader that holds nothing, a file in which no header row is found
\* (or that does not parse), and a file whose sheet holds the columns cols
\* and the rows below the header.
NoFile == [present |-> FALSE, loads |-> FALSE, cols |-> {}, rows |-> <<>>]
Unreadable == [present |-> TRUE, loads |-> FALSE, cols |-> {}, rows |-> <<>>]
Sheet(cols, rows) == [present |-> TRUE, loads |-> TRUE, cols |-> cols, rows |-> rows]

\* The characters of the texts a header cell may hold, by column name.
Chars(name) ==
    CASE name = "HireDate" -> <<72, 105, 114, 101, 68, 97, 116, 101>>
      [] name = "BirthDate" -> <<66, 105, 114, 116, 104, 68, 97, 116, 101>>
      [] OTHER -> <<104, 105, 114, 101, 100, 97, 116, 101>>

HeaderTexts == {"HireDate", "BirthDate", "hiredate"}

\* The name read_excel gives column j (1 or 2) of a sheet whose header row
\* is row: the text of the cell, 'Unnamed: 0' / 'Unnamed: 1' for a blank
\* cell, and the text followed by '.1' when the cell before holds the same.
HeaderName(row, j) ==
    IF isna(row[j]) THEN (IF j = 1 THEN "Unnamed: 0" ELSE "Unnamed: 1")
    ELSE IF j = 2 /\ row[1] = row[2]
    THEN (CASE row[2].s = Chars("HireDate") -> "HireDate.1"
            [] row[2].s = Chars("BirthDate") -> "BirthDate.1"
            [] OTHER -> "hiredate.1")
    ELSE CHOOSE n \in HeaderTexts : Chars(n) = row[j].s

\* An uploaded workbook given by the cells of its sheet (grid, rows of two
\* cells) with the header keywords typed for it: what lines 17-31 make of
\* it, the header row located by header_row_index, the columns named by the
\* header row and the rows below it as the records.
Book(grid, keywords) ==
    LET h == header_row_index(grid, keywords)
        cols == {HeaderName(grid[h + 1], j) : j \in 1..2}
        pos(c) == CHOOSE j \in 1..2 : HeaderName(grid[h + 1], j) = c
    IN IF h = -1
       THEN [present |-> TRUE, loads |-> FALSE, cols |-> {}, rows |-> <<>>,
             grid |-> grid, keywords |-> keywords]
       ELSE [present |-> TRUE, loads |-> TRUE, cols |-> cols,
             rows |-> [i \in 1..(Len(grid) - h - 1) |->
                          [c \in cols |-> grid[h + 1 + i][pos(c)]]],
             grid |-> grid, keywords |-> keywords]

\* The default column names of the selectors (従業員番号, 入社年月日,
\* 加入年月日, 生年月日, 退職年月日, 給与1 .. 給与4).
DefaultName(k) ==
    CASE k = "emp_id" -> "EmpNo"
      [] k = "hire_date" -> "HireDate"
      [] k = "enroll_date" -> "EnrollDate"
      [] k = "birth_date" -> "BirthDate"
      [] k = "retire_date" -> "RetireDate"
      [] k = "salary1" -> "Salary1"
      [] k = "salary2" -> "Salary2"
      [] k = "salary3" -> "Salary3"
      [] OTHER -> "Salary4"

PrevFields == {"emp_id", "hire_date", "enroll_date", "birth_date",
               "salary1", "salary2", "salary3", "salary4"}
CurrFields == PrevFields \cup {"retire_date"}
RetireFields == {"emp_id", "hire_date", "enroll_date", "birth_date", "retire_date"}

\* create_column_selector left untouched: a text input holding the default
\* name when no column list is known, else a select box on the default name
\* if the sheet has it and on NONE_OPTION if not.
create_column_selector(default_name, columns) ==
    IF columns = {} THEN default_name
    ELSE IF default_name \in columns THEN default_name ELSE NONE_OPTION

\* The selectors of one table left untouched.
DefaultSelections(fields, file) ==
    [k \in fields |-> create_column_selector(DefaultName(k), file.cols)]

\* Every sheet content of at most max rows drawn from rowset.
Tables(rowset, max) == UNION {[1..n -> rowset] : n \in 0..max}

\* Bounds on the number of rows of the uploaded sheets.
MaxRows == 2
MaxRetireRows == 2

\* The salary check panel left untouched (lines 196-228): every box ticked,
\* x = "5", y = "1", z = "0".
DefaultChecks ==
    [check_salary_decrease_1 |-> TRUE, check_salary_increase_1 |-> TRUE,
     increase_rate_x1 |-> <<53>>,
     check_cumulative_salary_1_ui |-> TRUE, months_y1 |-> <<49>>,
     check_cumulative_salary_2_ui |-> TRUE, allowance_rate_z1 |-> <<48>>,
     check_salary_decrease_3_ui |-> TRUE, check_salary_increase_3_ui |-> TRUE,
     increase_rate_x3 |-> <<53>>,
     check_cumulative_salary_3_ui |-> TRUE, months_y3 |-> <<49>>,
     check_cumulative_salary_4_ui |-> TRUE, allowance_rate_z3 |-> <<48>>]

\* The widgets as the user leaves them with the three files uploaded and no
\* selector changed.
Untouched(fp, fc, fr, base) ==
    [file_prev |-> fp, file_curr |-> fc, file_retire |-> fr,
     selections_prev |-> DefaultSelections(PrevFields, fp),
     selections_curr |-> DefaultSelections(CurrFields, fc),
     selections_retire |-> DefaultSelections(RetireFields, fr),
     base_date |-> base,
     salary_checks |-> DefaultChecks]

\* Employee numbers as numbers, as text and left blank; all hired and born on
\* the same days.
EmpIdRows ==
    {[c \in {"EmpNo", "HireDate", "BirthDate"} |->
        CASE c = "EmpNo" -> e
          [] c = "HireDate" -> DateCell(20100401)
          [] OTHER -> DateCell(19850615)] :
     e \in {IntCell(1), IntCell(2), TextCell(<<49>>), NaN}}

EmpIdInit ==
    \E p \in Tables(EmpIdRows, MaxRows), c \in Tables(EmpIdRows, MaxRows) :
        InitWith(Untouched(Sheet({"EmpNo", "HireDate", "BirthDate"}, p),
                           Sheet({"EmpNo", "HireDate", "BirthDate"}, c),
                           NoFile, 20210331))

\* No employee number: hire and birth dates, some missing.
DateKeyRows ==
    {[c \in {"HireDate", "BirthDate"} |-> IF c = "HireDate" THEN hb[1] ELSE hb[2]] :
     hb \in {<<DateCell(20100401), DateCell(19850615)>>,
              <<DateCell(19850615), DateCell(19850615)>>,
              <<DateCell(20100401), NaN>>,
              <<NaN, DateCell(19850615)>>,
              <<NaN, NaN>>}}

DateKeyInit ==
    \E p \in Tables(DateKeyRows, MaxRows), c \in Tables(DateKeyRows, MaxRows) :
        InitWith(Untouched(Sheet({"HireDate", "BirthDate"}, p),
                           Sheet({"HireDate", "BirthDate"}, c), NoFile, 20210331))

\* One employee as a row of a sheet with the columns cols: the employee
\* number e, a retire date d, and fixed hire and birth dates.
Employee(cols, e, d) ==
    [c \in cols |->
        CASE c = "EmpNo" -> e
          [] c = "RetireDate" -> d
          [] c = "HireDate" -> DateCell(20100401)
          [] OTHER -> DateCell(19850615)]

\* The sheets of the key strategy: with and without the employee number
\* column, the column filled or blank, with and without the date columns,
\* with the enroll date in place of the hire date.
StrategySheets ==
    {Sheet(cols, <<Employee(cols, e, NaN)>>) :
        cols \in {{"EmpNo", "HireDate", "BirthDate"}, {"HireDate", "BirthDate"},
                  {"EmpNo"}, {"EmpNo", "BirthDate"}, {"EnrollDate", "BirthDate"}},
        e \in {IntCell(1), NaN}}

\* The selectors untouched, or the employee number of the prior table
\* switched to NONE_OPTION.
StrategyInit ==
    \E p \in StrategySheets \cup {NoFile, Unreadable},
       c \in StrategySheets \cup {Unreadable},
       r \in StrategySheets \cup {NoFile, Unreadable},
       off \in BOOLEAN :
        InitWith([Untouched(p, c, r, 20210331) EXCEPT
                     !.selections_prev["emp_id"] = IF off THEN NONE_OPTION ELSE @])

\* The retire date selector of the current table: left on the 退職年月日
\* column, switched to NONE_OPTION, or left on the column while the 給与1
\* selector is set to the same column.
RetireSelectors(fc) ==
    {DefaultSelections(CurrFields, fc),
     [DefaultSelections(CurrFields, fc) EXCEPT !["retire_date"] = NONE_OPTION],
     [DefaultSelections(CurrFields, fc) EXCEPT !["salary1"] = "RetireDate"]}

\* The retiree uploader: empty, a file that does not load, or a sheet of
\* retirees (employees 1 and 3).
RetireeFiles ==
    {NoFile, Unreadable}
    \cup {Sheet({"EmpNo", "RetireDate"}, t) :
             t \in Tables({Employee({"EmpNo", "RetireDate"}, IntCell(e), DateCell(20201231)) :
                              e \in {1, 3}}, MaxRetireRows)}

\* Retirees marked in the current table or listed in a retiree file.
RetireInit ==
    \E p \in Tables({Employee({"EmpNo"}, IntCell(e), NaN) : e \in {1, 2}}, MaxRows),
       c \in Tables({Employee({"EmpNo", "RetireDate"}, IntCell(1), NaN),
                      Employee({"EmpNo", "RetireDate"}, IntCell(1), DateCell(20201231)),
                      Employee({"EmpNo", "RetireDate"}, IntCell(2), DateCell(20201231))},
                     MaxRows),
       r \in RetireeFiles,
       sc \in RetireSelectors(Sheet({"EmpNo", "RetireDate"}, <<>>)) :
        InitWith([Untouched(Sheet({"EmpNo"}, p), Sheet({"EmpNo", "RetireDate"}, c),
                            r, 20210331)
                     EXCEPT !.selections_curr = sc])

\* The columns of the sheets of salary group g (1 or 3): the employee
\* number, the salary and the cumulative salary of the group.
SalaryColumns(g) ==
    IF g = 1 THEN {"EmpNo", "Salary1", "Salary2"} ELSE {"EmpNo", "Salary3", "Salary4"}

\* Employee 1 with the salary a and the cumulative salary b.
SalaryRow(g, a, b) ==
    [c \in SalaryColumns(g) |->
        CASE c = "EmpNo" -> IntCell(1)
          [] c \in {"Salary1", "Salary3"} -> a
          [] OTHER -> b]

\* Salaries as numbers, blank and as text, and cumulative salaries.
SalaryRows(g) ==
    {SalaryRow(g, a, IntCell(1000)) :
        a \in {IntCell(100), IntCell(110), NaN, TextCell(<<97, 98, 99>>)}}
    \cup {SalaryRow(g, IntCell(100), b) : b \in {IntCell(1100), IntCell(1210)}}

\* Bound on the number of rows of the sheets of the salary checks.
MaxSalaryRows == 1

\* The salary check panel with every box ticked or none, the rate x, the
\* months y and the allowance z in both groups.
ChecksWith(ticked, x, y, z) ==
    [check_salary_decrease_1 |-> ticked, check_salary_increase_1 |-> ticked,
     increase_rate_x1 |-> x,
     check_cumulative_salary_1_ui |-> ticked, months_y1 |-> y,
     check_cumulative_salary_2_ui |-> ticked, allowance_rate_z1 |-> z,
     check_salary_decrease_3_ui |-> ticked, check_salary_increase_3_ui |-> ticked,
     increase_rate_x3 |-> x,
     check_cumulative_salary_3_ui |-> ticked, months_y3 |-> y,
     check_cumulative_salary_4_ui |-> ticked, allowance_rate_z3 |-> z]

\* The rates "5", "10" and "abc"; a month and no allowance, twelve months
\* and no allowance, or a month and an allowance of 10 percent.
SalaryInit ==
    \E g \in {1, 3} :
    \E p \in Tables(SalaryRows(g), MaxSalaryRows),
       c \in Tables(SalaryRows(g), MaxSalaryRows),
       ticked \in BOOLEAN,
       x \in {<<53>>, <<49, 48>>, <<97, 98, 99>>},
       yz \in {<< <<49>>, <<48>> >>, << <<49, 50>>, <<48>> >>, << <<49>>, <<49, 48>> >>} :
        InitWith([Untouched(Sheet(SalaryColumns(g), p), Sheet(SalaryColumns(g), c),
                            NoFile, 20210331)
                     EXCEPT !.salary_checks = ChecksWith(ticked, x, yz[1], yz[2])])

\* The salaries of the worked examples of the decrease and increase-rate
\* rules, a salary of nothing among them.
ExampleSalaries == {0, 100000, 104999, 105000, 290000, 300000}

\* One employee with a prior and a current salary 1 of the examples, the
\* salary check panel left untouched.
SalaryExampleInit ==
    \E a \in ExampleSalaries, b \in ExampleSalaries :
        InitWith(Untouched(Sheet(SalaryColumns(1), <<SalaryRow(1, IntCell(a), IntCell(0))>>),
                           Sheet(SalaryColumns(1), <<SalaryRow(1, IntCell(b), IntCell(0))>>),
                           NoFile, 20210331))

Init ==
    \/ EmpIdInit \/ DateKeyInit \/ StrategyInit \/ RetireInit \/ SalaryInit
    \/ SalaryExampleInit

Spec == Init /\ [][Next]_vars

\* The rows of the date rules: employee e hired on h and born on b, a date
\* or a blank each.
DatedEmployee(e, h, b) ==
    [c \in {"EmpNo", "HireDate", "BirthDate"} |->
        CASE c = "EmpNo" -> IntCell(e)
          [] c = "HireDate" -> h
          [] OTHER -> b]

\* Hired on 2020-01-01 or the day after, born on 2005-01-01 (5478 or 5479
\* days before) or on 1930-01-01 (32872 or 32873 days before), or a date
\* left blank.
DateRuleRows ==
    {DatedEmployee(1, DateCell(20200101), DateCell(20050101)),
     DatedEmployee(1, DateCell(20200102), DateCell(20050101)),
     DatedEmployee(1, DateCell(20200101), DateCell(19300101)),
     DatedEmployee(1, DateCell(20200102), DateCell(19300101)),
     DatedEmployee(1, NaN, DateCell(20050101)),
     DatedEmployee(1, DateCell(20200101), NaN),
     DatedEmployee(2, DateCell(20200102), DateCell(20050101))}

\* Bounds on the number of rows of the two sheets of the date rules: of the
\* longer and of the shorter.
MaxDateRows == 2
MaxOtherRows == 1

\* The reference dates of the date rules.
DateRuleBases == {20200101, 20210101}

\* The prior and the current sheet drawn from the rows of the date rules,
\* either of them the longer one.
InitDates ==
    \E long \in Tables(DateRuleRows, MaxDateRows),
       short \in Tables(DateRuleRows, MaxOtherRows),
       prior_is_long \in BOOLEAN,
       base \in DateRuleBases :
        InitWith(Untouched(
            Sheet({"EmpNo", "HireDate", "BirthDate"}, IF prior_is_long THEN long ELSE short),
            Sheet({"EmpNo", "HireDate", "BirthDate"}, IF prior_is_long THEN short ELSE long),
            NoFile, base))

SpecDates == InitDates /\ [][Next]_vars

\* The cells of the sheets of the header search: blank, or one of the texts.
GridCells == {NaN} \cup {TextCell(Chars(n)) : n \in HeaderTexts}

\* Bound on the number of rows of a sheet of the header search.
MaxGridRows == 2

\* Every sheet of at most MaxGridRows rows of two cells.
Grids == UNION {[1..n -> [1..2 -> GridCells]] : n \in 0..MaxGridRows}

\* The keyword lists of lines 99-100 (the empty inputs dropped): none,
\* 'Hire', 'Hire' and 'Birth', and 'eB', which no cell holds but the
\* cells 'HireDate', 'BirthDate' side by side do.
KeywordLists ==
    {<<>>, << <<72, 105, 114, 101>> >>,
     << <<72, 105, 114, 101>>, <<66, 105, 114, 116, 104>> >>,
     << <<101, 66>> >>}

\* A sheet with its header in the first row and one record below.
PlainBook ==
    Book(<< <<TextCell(Chars("HireDate")), TextCell(Chars("BirthDate"))>>,
            <<NaN, NaN>> >>,
         << <<72, 105, 114, 101>>, <<66, 105, 114, 116, 104>> >>)

\* The prior or the current upload is a workbook of the header search, the
\* other one the plain sheet.
InitHeader ==
    \E grid \in Grids, keywords \in KeywordLists, prior \in BOOLEAN :
        InitWith(Untouched(IF prior THEN Book(grid, keywords) ELSE PlainBook,
                           IF prior THEN PlainBook ELSE Book(grid, keywords),
                           NoFile, 20210331))

SpecHeader == InitHeader /\ [][Next]_vars

\* One row of the sheets of a session: employee e with the salary a.
SessionRow(e, a) ==
    [c \in {"EmpNo", "Salary1"} |-> IF c = "EmpNo" THEN IntCell(e) ELSE a]

\* What the user may upload during a session: nothing, a file that does not
\* load, a sheet of one employee, of two employees, of one employee whose
\* salary is a text, and a sheet without employee number and dates.
SessionFiles ==
    {NoFile, Unreadable,
     Sheet({"EmpNo", "Salary1"}, <<SessionRow(1, IntCell(100))>>),
     Sheet({"EmpNo", "Salary1"}, <<SessionRow(1, IntCell(100)), SessionRow(2, IntCell(100))>>),
     Sheet({"EmpNo", "Salary1"}, <<SessionRow(1, TextCell(<<97, 98, 99>>))>>),
     Sheet({"Salary1"}, <<[c \in {"Salary1"} |-> IntCell(100)]>>)}

\* A script run in which the user changed the prior (current) upload: the
\* selectors of the table are rebuilt on the columns of the new sheet, the
\* session state is left as it is.
UploadPrev ==
    /\ \E f \in SessionFiles \ {file_prev} :
          /\ file_prev' = f
          /\ selections_prev' = DefaultSelections(PrevFields, f)
    /\ UNCHANGED <<file_curr, file_retire, selections_curr, selections_retire,
                   base_date, salary_checks, processing_complete, summary_metrics,
                   processed_data, run>>

UploadCurr ==
    /\ \E f \in SessionFiles \ {file_curr} :
          /\ file_curr' = f
          /\ selections_curr' = DefaultSelections(CurrFields, f)
    /\ UNCHANGED <<file_prev, file_retire, selections_prev, selections_retire,
                   base_date, salary_checks, processing_complete, summary_metrics,
                   processed_data, run>>

InitSession ==
    \E fp \in SessionFiles, fc \in SessionFiles :
        InitWith(Untouched(fp, fc, NoFile, 20210331))

\* The script runs of a session: with and without the button pressed, with
\* and without last_updated bound, with an upload changed.
NextSession == CheckStart \/ CheckStartUnstamped \/ Rerun \/ UploadPrev \/ UploadCurr

SpecSession == InitSession /\ [][NextSession]_vars

-----------------------------------------------------------------------------
(* Properties                                                              *)

\* The keys of a keyed table and of a merged table.
KeysOf(df) == {KeyOf(df.rows[i]) : i \in 1..Len(df.rows)}
MergedKeys(df) == {MergedKeyOf(df.rows[i]) : i \in 1..Len(df.rows)}

\* The number of rows of a keyed table that carry key k.
CountKey(df, k) == Cardinality({i \in 1..Len(df.rows) : KeyOf(df.rows[i]) = k})

Complete == run.status = "complete"

\* C1: after the outer join of Prior and Current (Current after any retiree
\* extraction) a key is among the continuing rows iff it is in both tables,
\* among the new hires iff it is in Current only, among the retiree
\* candidates iff it is in Prior only; so every key of either table is in
\* exactly one partition, and no partition holds a key of neither table.
C1_PartitionByKey ==
    Complete =>
        /\ MergedKeys(run.results["continuing"])
              = KeysOf(run.df_prev) \cap KeysOf(run.df_curr)
        /\ MergedKeys(run.results["new_hires"])
              = KeysOf(run.df_curr) \ KeysOf(run.df_prev)
        /\ MergedKeys(run.retiree_candidates)
              = KeysOf(run.df_prev) \ KeysOf(run.df_curr)

\* A completed run in which each of the three partitions holds a row.
C1_Witness ==
    /\ Complete
    /\ run.results["continuing"].rows # <<>>
    /\ run.results["new_hires"].rows # <<>>
    /\ run.retiree_candidates.rows # <<>>

\* C2: with a Retiree table, 'matched' is exactly the Retiree rows whose key
\* is a retiree-candidate key, 'surplus' exactly the Retiree rows whose key
\* is not, 'missing' exactly the retiree-candidate rows whose key is not in
\* Retiree (so each key of the two falls into exactly one class), and the
\* candidates are not reported unclassified; without a Retiree table the
\* candidates are reported unclassified and no second-level class exists.
C2_RetireeClasses ==
    Complete =>
        IF ~run.df_retire.none
        THEN /\ run.results["retiree_matched"].rows
                   = SelectSeq(run.df_retire.rows,
                               LAMBDA x : KeyOf(x) \in MergedKeys(run.retiree_candidates))
             /\ run.results["retiree_surplus"].rows
                   = SelectSeq(run.df_retire.rows,
                               LAMBDA x : KeyOf(x) \notin MergedKeys(run.retiree_candidates))
             /\ run.results["retiree_missing"].rows
                   = SelectSeq(run.retiree_candidates.rows,
                               LAMBDA x : MergedKeyOf(x) \notin KeysOf(run.df_retire))
             /\ "retiree_candidates" \notin DOMAIN run.results
        ELSE /\ run.results["retiree_candidates"] = run.retiree_candidates
             /\ DOMAIN run.results
                   \cap {"retiree_matched", "retiree_surplus", "retiree_missing"} = {}

\* A completed run with an uploaded Retiree table in which each of the three
\* second-level classes holds a row.
C2_Witness ==
    /\ Complete
    /\ run.retire_file_read
    /\ ~run.df_retire.none
    /\ run.results["retiree_matched"].rows # <<>>
    /\ run.results["retiree_surplus"].rows # <<>>
    /\ run.results["retiree_missing"].rows # <<>>

\* The records of the run's tables: Prior, Current, and Retiree when there
\* is one.
RunRows ==
    {run.df_prev.rows[i] : i \in 1..Len(run.df_prev.rows)}
    \cup {run.df_curr.rows[i] : i \in 1..Len(run.df_curr.rows)}
    \cup {run.df_retire.rows[i] : i \in 1..Len(run.df_retire.rows)}

\* Two employee_id values are equal: two numbers of the same value (1 and
\* 1.0), two texts of the same characters, a number and the text of its
\* digits, or two blanks.
SameEmployeeId(a, b) ==
    LET text(c) == IF c.t \in {"int", "float"} THEN Digits(c.n) ELSE c.s
    IN IF isna(a) \/ isna(b) THEN isna(a) /\ isna(b) ELSE text(a) = text(b)

\* C3: any two records of the run's tables have equal keys iff they agree on
\* the inputs of the active strategy: their employee_id values are equal
\* under the employee-id strategy; their hire dates are equal or both
\* missing, and their birth dates too, under the date-composite strategy.
C3_KeysEqualIffInputsAgree ==
    Complete =>
        \A a, b \in RunRows :
            (KeyOf(a) = KeyOf(b))
                <=> IF run.use_emp_id_key
                    THEN SameEmployeeId(a["_emp_id"], b["_emp_id"])
                    ELSE /\ a["_hire_date"] = b["_hire_date"]
                         /\ a["_birth_date"] = b["_birth_date"]

\* The canonical employee_id column is present in a table and not blank in
\* all its records (a table without records has no blank record).
EmpIdPresentAndNonEmpty(df) ==
    /\ "_emp_id" \in df.cols
    /\ df.rows # <<>> => \E i \in 1..Len(df.rows) : notna(df.rows[i]["_emp_id"])

\* C4: a run that reaches the key step uses the employee-id strategy iff the
\* employee_id column is present and non-empty in every table of the run
\* (Prior, Current, and Retiree when present), and every record of every
\* table is keyed by the one strategy chosen.
C4_OneStrategyByEmpIdColumns ==
    /\ run.status \in {"complete", "stop_key"} =>
          (run.use_emp_id_key
              <=> /\ EmpIdPresentAndNonEmpty(run.df_prev)
                  /\ EmpIdPresentAndNonEmpty(run.df_curr)
                  /\ run.df_retire.none \/ EmpIdPresentAndNonEmpty(run.df_retire))
    /\ Complete =>
          \A r \in RunRows :
              KeyOf(r) = IF run.use_emp_id_key THEN EmpIdKey(r) ELSE DateKey(r)

\* C5: a run started with the retire date of the Current table mapped (not
\* NONE_OPTION) does not read the retiree file, and its results, its summary
\* and whether it completes are those of the run on the same widgets with
\* the retiree uploader empty.
C5_RetireeFileIgnoredWhenMapped ==
    (run.status # "idle" /\ ~RetireFileIsUsed(selections_curr)) =>
        /\ ~run.retire_file_read
        /\ run.results
              = RunCheck(file_prev, file_curr, NoFile, selections_prev,
                         selections_curr, selections_retire, base_date,
                         salary_checks).results
        /\ run.summary
              = RunCheck(file_prev, file_curr, NoFile, selections_prev,
                         selections_curr, selections_retire, base_date,
                         salary_checks).summary
        /\ (run.status = "complete")
              = (RunCheck(file_prev, file_curr, NoFile, selections_prev,
                          selections_curr, selections_retire, base_date,
                          salary_checks).status
                    = "complete")

\* The rows of finding set f are rows of table df, and of every key they are
\* all of df's rows when df has two or more and none when it has one.
ExactlyTheDuplicates(f, df) ==
    /\ \A i \in 1..Len(f.rows) : \E j \in 1..Len(df.rows) : f.rows[i] = df.rows[j]
    /\ \A k \in KeysOf(df) :
          CountKey(f, k) = IF CountKey(df, k) >= 2 THEN CountKey(df, k) ELSE 0

\* C6: for each table of the run on its own, the key-duplication finding set
\* holds exactly the records whose key occurs at least twice in that table:
\* all k of them when k >= 2 share a key, none whose key is unique there,
\* whether or not the key occurs in another table.
C6_KeyDuplicates ==
    Complete =>
        /\ ExactlyTheDuplicates(run.results["dup_prev"], run.df_prev)
        /\ ExactlyTheDuplicates(run.results["dup_curr"], run.df_curr)
        /\ IF run.df_retire.none THEN "dup_retire" \notin DOMAIN run.results
           ELSE ExactlyTheDuplicates(run.results["dup_retire"], run.df_retire)

\* A completed run in which a key is carried by two Prior rows and by one
\* Current row: both Prior rows are reported, the Current row is not.
C6_Witness ==
    /\ Complete
    /\ \E k \in KeysOf(run.df_prev) \cap KeysOf(run.df_curr) :
          /\ CountKey(run.df_prev, k) = 2
          /\ CountKey(run.df_curr, k) = 1
          /\ CountKey(run.results["dup_prev"], k) = 2
          /\ CountKey(run.results["dup_curr"], k) = 0

\* Finding set name of the run holds the record r of a table: a row of the
\* same cells, with whatever reason.
Appears(name, r) ==
    /\ name \in DOMAIN run.results
    /\ \E i \in 1..Len(run.results[name].rows) :
          [c \in DOMAIN r |-> run.results[name].rows[i][c]] = r

\* Finding set name of the run holds the record r with the given reason.
FlaggedFor(name, r, reason) ==
    /\ name \in DOMAIN run.results
    /\ \E i \in 1..Len(run.results[name].rows) :
          /\ [c \in DOMAIN r |-> run.results[name].rows[i][c]] = r
          /\ run.results[name].rows[i]["error_reason"] = reason

\* The records of a table of the run.
RowsOf(df) == {df.rows[i] : i \in 1..Len(df.rows)}

\* No two records of the table share a key.
UniqueKeys(df) == \A k \in KeysOf(df) : CountKey(df, k) = 1

\* C7: every Prior record hired strictly after the reference date minus one
\* year, and every Current record hired strictly after the reference date,
\* appears in the date-validity finding set of its table, also when records
\* share a key or the record breaks the age rule too; a record hired on the
\* relevant date or without hire date is not flagged by the hire-date rule.
C7_LateHiresAllFlagged ==
    Complete =>
        /\ \A r \in RowsOf(run.df_prev) :
              IF After(r["_hire_date"], MinusOneYear(base_date))
              THEN Appears("date_prev", r)
              ELSE ~FlaggedFor("date_prev", r, ReasonHire)
        /\ \A r \in RowsOf(run.df_curr) :
              IF After(r["_hire_date"], base_date)
              THEN Appears("date_curr", r)
              ELSE ~FlaggedFor("date_curr", r, ReasonHire)

\* A record of table df is flagged by the age rule in finding set name iff
\* it has both dates and its age at hire in days d has 4*d < 21915 or
\* 4*d >= 131490.
AgeRuleExact(name, df) ==
    \A r \in RowsOf(df) :
        FlaggedFor(name, r, ReasonAge)
            <=> /\ notna(r["_hire_date"])
                /\ notna(r["_birth_date"])
                /\ LET d == DaysFromCivil(r["_hire_date"].n)
                            - DaysFromCivil(r["_birth_date"].n)
                   IN 4 * d < 21915 \/ 4 * d >= 131490

\* C8: in a Prior or Current table with unique keys a record is flagged by
\* the age rule iff it has both dates and age = days / 365.25 is < 15 or
\* >= 90 (4*days < 21915 or 4*days >= 131490); a record missing either date
\* is never flagged by this rule.
C8_AgeRule ==
    Complete =>
        /\ UniqueKeys(run.df_prev) => AgeRuleExact("date_prev", run.df_prev)
        /\ UniqueKeys(run.df_curr) => AgeRuleExact("date_curr", run.df_curr)

\* A completed run on tables with unique keys that hold a record flagged as
\* hired under 15 (5478 days), a record flagged as hired at 90 or over
\* (32873 days), a record of 5479 days not flagged, and a record without
\* birth date not flagged.
C8_Witness ==
    /\ Complete
    /\ UniqueKeys(run.df_prev)
    /\ UniqueKeys(run.df_curr)
    /\ \E r \in RowsOf(run.df_prev) :
          /\ notna(r["_hire_date"]) /\ notna(r["_birth_date"])
          /\ HireAgeDays(r) = 5478
          /\ FlaggedFor("date_prev", r, ReasonAge)
    /\ \E r \in RowsOf(run.df_prev) :
          /\ notna(r["_hire_date"]) /\ notna(r["_birth_date"])
          /\ HireAgeDays(r) = 5479
          /\ ~FlaggedFor("date_prev", r, ReasonAge)
    /\ \E r \in RowsOf(run.df_curr) :
          /\ notna(r["_hire_date"]) /\ notna(r["_birth_date"])
          /\ HireAgeDays(r) = 32873
          /\ FlaggedFor("date_curr", r, ReasonAge)

\* C9: a record hired on 2020-01-01 and born on 2005-01-01 is not flagged by
\* the age rule, and a record hired on 2020-01-01 and born on 1930-01-01 is
\* flagged by it (tables with unique keys, where a flagged record is kept).
C9_AgeExamples ==
    Complete =>
        \A t \in {<<"date_prev", run.df_prev>>, <<"date_curr", run.df_curr>>} :
            UniqueKeys(t[2]) =>
                \A r \in RowsOf(t[2]) :
                    r["_hire_date"] = DateCell(20200101) =>
                        /\ r["_birth_date"] = DateCell(20050101)
                              => ~FlaggedFor(t[1], r, ReasonAge)
                        /\ r["_birth_date"] = DateCell(19300101)
                              => FlaggedFor(t[1], r, ReasonAge)

\* Two dates are the same: equal, or missing both.
SameDate(a, b) == a = b

\* C10: when the hire and birth date columns exist on both sides, a
\* continuing row is in the basic-info-change finding set iff its Prior and
\* Current birth dates differ or its Prior and Current hire dates differ; a
\* date missing on both sides does not differ.
C10_BasicInfoChange ==
    (Complete /\ BasicInfoColumns(run.results["continuing"])) =>
        \A r \in RowsOf(run.results["continuing"]) :
            Appears("basic_info_change", r)
                <=> \/ ~SameDate(r[bdate_prev], r[bdate_curr])
                    \/ ~SameDate(r[hdate_prev], r[hdate_curr])

\* The growth rate x, the months y and the allowance z typed for salary
\* group g (1 or 3).
RateText(g) ==
    IF g = 1 THEN salary_checks.increase_rate_x1 ELSE salary_checks.increase_rate_x3

\* The salary column of group g and its cumulative column.
SalaryOf(g) == IF g = 1 THEN "_salary1" ELSE "_salary3"
CumulativeOf(g) == IF g = 1 THEN "_salary2" ELSE "_salary4"

\* C11: where the increase-rate finding set of a salary group is produced
\* (check enabled, numeric x, salary mapped on both sides), a continuing row
\* with numeric prior and current salary is in it iff
\* current >= prior * (1 + x/100), that is 100 * current >= prior * (100 + x);
\* so prior 100000 with x = 5 flags current 105000 and not 104999.
C11_IncreaseRateThreshold ==
    Complete =>
        \A g \in {1, 3} :
            RuleName(g, "increase") \in DOMAIN run.results =>
                \A r \in RowsOf(run.results["continuing"]) :
                    (IsNum(r[PrevOf(SalaryOf(g))]) /\ IsNum(r[CurrOf(SalaryOf(g))])) =>
                        (Appears(RuleName(g, "increase"), r)
                            <=> 100 * r[CurrOf(SalaryOf(g))].n
                                   >= r[PrevOf(SalaryOf(g))].n
                                         * (100 + IntOfDigits(RateText(g))))

\* C12: where the salary-decrease finding set of a salary group is produced
\* (check enabled, salary mapped on both sides), a continuing row with
\* numeric prior and current salary is in it iff current < prior (equal
\* values are not flagged), and a row with a null salary on either side is
\* not in it.
C12_DecreaseRule ==
    Complete =>
        \A g \in {1, 3} :
            RuleName(g, "decrease") \in DOMAIN run.results =>
                \A r \in RowsOf(run.results["continuing"]) :
                    /\ (IsNum(r[PrevOf(SalaryOf(g))]) /\ IsNum(r[CurrOf(SalaryOf(g))])) =>
                          (Appears(RuleName(g, "decrease"), r)
                              <=> r[CurrOf(SalaryOf(g))].n < r[PrevOf(SalaryOf(g))].n)
                    /\ (isna(r[PrevOf(SalaryOf(g))]) \/ isna(r[CurrOf(SalaryOf(g))])) =>
                          ~Appears(RuleName(g, "decrease"), r)

\* A completed run whose decrease finding set holds the row of prior salary
\* 300000 and current salary 290000.
C12_Witness ==
    /\ Complete
    /\ "salary_decrease_1" \in DOMAIN run.results
    /\ \E r \in RowsOf(run.results["continuing"]) :
          /\ r[PrevOf("_salary1")] = IntCell(300000)
          /\ r[CurrOf("_salary1")] = IntCell(290000)
          /\ Appears("salary_decrease_1", r)

\* A salary value that is text and no number.
TextSalary(c) == c.t = "text" /\ ~IsDigits(c.s)

\* The salary columns mapped in both tables of the run.
MappedSalaries ==
    {col \in {"_salary1", "_salary2", "_salary3", "_salary4"} :
        col \in run.df_prev.cols /\ col \in run.df_curr.cols}

\* The run reached the salary checks on keyed tables and some continuing
\* row (a Prior and a Current record of the same key) has a text that is no
\* number in a salary column mapped on both sides.
SomeTextSalary ==
    /\ run.status \in {"complete", "exception"}
    /\ key_col_name \in run.df_prev.cols /\ key_col_name \in run.df_curr.cols
    /\ \E col \in MappedSalaries :
          \E p \in RowsOf(run.df_prev), c \in RowsOf(run.df_curr) :
              /\ KeyOf(p) = KeyOf(c)
              /\ TextSalary(p[col]) \/ TextSalary(c[col])

\* C13: a run in which some continuing row has a non-numeric text in a
\* prior or current salary column still completes, and that row is in none
\* of the finding sets of the salary checks.
C13_TextSalaryNeverRaises ==
    SomeTextSalary =>
        /\ Complete
        /\ \A g \in {h \in {1, 3} : SalaryOf(h) \in MappedSalaries} :
              \A r \in RowsOf(run.results["continuing"]) :
                  (\/ TextSalary(r[PrevOf(SalaryOf(g))])
                   \/ TextSalary(r[CurrOf(SalaryOf(g))])) =>
                      \A rule \in {"decrease", "increase", "cumulative_low",
                                    "cumulative_high"} :
                          ~Appears(RuleName(g, rule), r)

\* The tables of a run on the present widgets after steps 1 to 1.8: Prior,
\* Current, and Retiree when there is one (none when the run ends before).
LoadedTables ==
    LET loaded == LoadStage(file_prev, file_curr, file_retire, selections_prev,
                            selections_curr, selections_retire)
    IN IF ~(file_prev.present /\ file_curr.present) \/ loaded.status # "ok" THEN {}
       ELSE {ConvertDates(loaded.df_prev), ConvertDates(loaded.df_curr)}
            \cup (IF loaded.df_retire.none THEN {}
                  ELSE {ConvertDates(loaded.df_retire)})

\* The run left nothing: no finding set or partition, no summary and no
\* workbook, and it is not marked complete.
NothingProduced ==
    /\ run.results = NoResults
    /\ DOMAIN run.summary = {}
    /\ run.workbook = NoWorkbook
    /\ ~processing_complete

\* C14: when the date-composite strategy is active (some table of the run
\* has no employee_id column) and some table of the run (Prior, Current or
\* Retiree) lacks the hire_date column (after the enroll-date fallback) or
\* the birth_date column, the run stops at key derivation: no later stage
\* runs, it leaves no finding set, summary or workbook, and it is not marked
\* complete.
C14_MissingKeyColumnsFatal ==
    (/\ run.status # "idle"
     /\ \E t \in LoadedTables : "_emp_id" \notin t.cols
     /\ \E t \in LoadedTables : ~({"_hire_date", "_birth_date"} \subseteq t.cols)) =>
        /\ run.status = "stop_key"
        /\ NothingProduced

\* A run stopped at key derivation by its Retiree table: Prior and Current
\* have the hire and birth date columns, the retiree file has not.
C14_Witness ==
    /\ run.status = "stop_key"
    /\ run.stopped_at = "retire"
    /\ {"_hire_date", "_birth_date"} \subseteq run.df_prev.cols
    /\ {"_hire_date", "_birth_date"} \subseteq run.df_curr.cols
    /\ ~({"_hire_date", "_birth_date"} \subseteq run.df_retire.cols)
    /\ NothingProduced

\* C15: the summary table and the download are offered only while
\* processing_complete is true; it is true only if the most recently
\* pressed run went through every stage including the workbook, and then
\* the stored summary_metrics and processed_data are the ones that run
\* wrote; a run that fails at any stage (required file missing, load
\* failure, key failure, an exception before or after the summary was
\* stored) leaves it false.
C15_NoPartialResults ==
    /\ (SummaryTableShown \/ DownloadOffered) => processing_complete
    /\ processing_complete =>
          /\ run.status = "complete"
          /\ summary_metrics = run.summary
          /\ processed_data = run.workbook
          /\ ~processed_data.none
    /\ run.status \in {"no_files", "stop_load", "stop_key", "exception"} =>
          ~processing_complete

\* After a completed run, a later run that stored its summary and then
\* failed in the workbook: the stored summary is the failed run's, the
\* stored workbook the earlier run's, and nothing is offered.
C15_Witness ==
    /\ run.status = "exception"
    /\ DOMAIN run.summary # {}
    /\ summary_metrics = run.summary
    /\ ~processed_data.none
    /\ processed_data.summary # summary_metrics
    /\ ~processing_complete
    /\ ~SummaryTableShown /\ ~DownloadOffered

\* The rows of a grid (counted from 0) whose non-empty cell values, put
\* together in column order, hold every keyword as a substring.
QualifyingRows(grid, keywords) ==
    {i \in 0..(Len(grid) - 1) :
        \A k \in 1..Len(keywords) :
            LET cell(j) == IF isna(grid[i + 1][j]) THEN <<>> ELSE grid[i + 1][j].s
            IN \E a \in 1..Len(cell(1) \o cell(2)) + 1 :
                   \E b \in (a - 1)..Len(cell(1) \o cell(2)) :
                       SubSeq(cell(1) \o cell(2), a, b) = keywords[k]}

\* The header search of a workbook finds the lowest qualifying row, takes
\* the column names from it and the records from the rows below; with no
\* qualifying row the workbook does not load.
HeaderFound(book) ==
    IF QualifyingRows(book.grid, book.keywords) = {}
    THEN /\ header_row_index(book.grid, book.keywords) = -1
         /\ find_header_and_read_excel(book).none
    ELSE /\ header_row_index(book.grid, book.keywords)
               \in QualifyingRows(book.grid, book.keywords)
         /\ \A i \in QualifyingRows(book.grid, book.keywords) :
               header_row_index(book.grid, book.keywords) <= i
         /\ ~find_header_and_read_excel(book).none
         /\ Len(find_header_and_read_excel(book).rows)
               = Len(book.grid) - header_row_index(book.grid, book.keywords) - 1

\* C16: find_header_and_read_excel takes as header the lowest-index row
\* whose concatenated non-empty cell values contain every keyword (case
\* matters); when no row qualifies it returns None, never a table headed by
\* row 0 or any other row; and a Prior or Current table that is not found
\* stops the run at loading.
C16_HeaderLocation ==
    run.status # "idle" =>
        /\ HeaderFound(file_prev)
        /\ HeaderFound(file_curr)
        /\ (run.status = "stop_load")
              <=> \/ QualifyingRows(file_prev.grid, file_prev.keywords) = {}
                  \/ QualifyingRows(file_curr.grid, file_curr.keywords) = {}

\* A run on a Prior workbook whose rows 0 and 1 both hold the keywords: row
\* 0 is taken as the header and row 1 is the one record of the table.
C16_Witness ==
    /\ run.status \notin {"idle", "stop_load"}
    /\ QualifyingRows(file_prev.grid, file_prev.keywords) = {0, 1}
    /\ file_prev.keywords # <<>>
    /\ header_row_index(file_prev.grid, file_prev.keywords) = 0
    /\ Len(run.df_prev.rows) = 1

\* The optional rules, by the name of their finding set and of their entry
\* of the summary: the salary rules of both groups and the basic-info
\* change rule.
OptionalRules ==
    {RuleName(g, rule) : g \in {1, 3},
                         rule \in {"decrease", "increase", "cumulative_low",
                                   "cumulative_high"}}
    \cup {"basic_info_change"}

\* C17: in the summary of a completed run an optional rule has an entry
\* only if it ran (its finding set was produced), so that the count 0 is
\* shown only for a rule that ran and flagged nothing; a rule that did not
\* run (column absent, toggle off, parameter unparseable) has no entry (the
\* summary holds counts only, there is no skip flag in it).
C17_SkipIsNotZero ==
    Complete =>
        \A name \in OptionalRules :
            name \in DOMAIN summary_metrics => name \in DOMAIN run.results

\* The increase-rate check of group g is enabled on the present widgets.
IncreaseEnabled(g) ==
    IF g = 1 THEN salary_checks.check_salary_increase_1
    ELSE /\ ~salary3_checks_disabled(selections_prev, selections_curr)
         /\ salary_checks.check_salary_increase_3_ui

\* The salary check panel with the increase-rate check of group g unticked.
IncreaseOff(g) ==
    IF g = 1 THEN [salary_checks EXCEPT !.check_salary_increase_1 = FALSE]
    ELSE [salary_checks EXCEPT !.check_salary_increase_3_ui = FALSE]

\* C18: when the growth-rate text x of a salary group is no number while
\* the increase-rate check of the group is enabled, the run produces no
\* increase-rate finding set for the group, and it ends as, and with the
\* finding sets and partitions of, the run on the same widgets with that
\* check unticked: the parse error aborts nothing and changes no other
\* result.
C18_RateParseErrorIsolated ==
    run.status # "idle" =>
        \A g \in {1, 3} :
            (IncreaseEnabled(g) /\ ~IsDigits(RateText(g))) =>
                /\ RuleName(g, "increase") \notin DOMAIN run.results
                /\ run.status
                      = RunCheck(file_prev, file_curr, file_retire, selections_prev,
                                 selections_curr, selections_retire, base_date,
                                 IncreaseOff(g)).status
                /\ run.results
                      = RunCheck(file_prev, file_curr, file_retire, selections_prev,
                                 selections_curr, selections_retire, base_date,
                                 IncreaseOff(g)).results
                /\ run.retiree_candidates
                      = RunCheck(file_prev, file_curr, file_retire, selections_prev,
                                 selections_curr, selections_retire, base_date,
                                 IncreaseOff(g)).retiree_candidates

\* A completed run with the increase-rate check of group 1 ticked and a rate
\* that is no number: no increase-rate finding set, and the decrease check
\* of the same group has flagged a row.
C18_Witness ==
    /\ Complete
    /\ IncreaseEnabled(1)
    /\ ~IsDigits(RateText(1))
    /\ "salary_increase_1" \notin DOMAIN run.results
    /\ "salary_decrease_1" \in DOMAIN run.results
    /\ run.results["salary_decrease_1"].rows # <<>>
    /\ "cumulative_1_1" \in DOMAIN run.results

\* The months text y of group g on the salary check panel.
MonthsText(g) == IF g = 1 THEN salary_checks.months_y1 ELSE salary_checks.months_y3

\* C19: where the cumulative lower-bound rule of a group has run, a row of
\* the continuing employees is in its finding set exactly when its prior
\* salary, prior cumulative salary and current cumulative salary are
\* numeric and the current cumulative salary is below the prior cumulative
\* salary plus y times the prior salary, whatever its current salary is.
C19_CumulativeLowerBound ==
    Complete =>
        \A g \in {1, 3} :
            RuleName(g, "cumulative_low") \in DOMAIN run.results =>
                \A r \in RowsOf(run.results["continuing"]) :
                    Appears(RuleName(g, "cumulative_low"), r)
                        <=> /\ IsNum(r[PrevOf(SalaryOf(g))])
                            /\ IsNum(r[PrevOf(CumulativeOf(g))])
                            /\ IsNum(r[CurrOf(CumulativeOf(g))])
                            /\ r[CurrOf(CumulativeOf(g))].n
                                  < r[PrevOf(CumulativeOf(g))].n
                                      + r[PrevOf(SalaryOf(g))].n * IntOfDigits(MonthsText(g))

\* The number of rows of a merged table that carry key k.
CountMergedKey(df, k) ==
    Cardinality({i \in 1..Len(df.rows) : MergedKeyOf(df.rows[i]) = k})

RECURSIVE SumOver(_, _, _)
\* The sum of CountKey(a, k) * CountKey(b, k) over the keys k of a set.
SumOver(keys, a, b) ==
    IF keys = {} THEN 0
    ELSE LET k == CHOOSE x \in keys : TRUE
         IN CountKey(a, k) * CountKey(b, k) + SumOver(keys \ {k}, a, b)

\* C20: in a completed run a key carried by m Prior rows and n Current rows
\* (Current after any retiree extraction) is carried by m * n continuing
\* rows when m, n >= 1, by m retiree-candidate rows when n = 0 and by n
\* new-hire rows when m = 0, and by no other row of the three partitions;
\* the summary's number of continuing employees is the sum of m * n over
\* the keys.
C20_JoinMultiplicities ==
    Complete =>
        /\ \A k \in KeysOf(run.df_prev) \cup KeysOf(run.df_curr) :
              /\ CountMergedKey(run.results["continuing"], k)
                    = CountKey(run.df_prev, k) * CountKey(run.df_curr, k)
              /\ CountMergedKey(run.retiree_candidates, k)
                    = IF CountKey(run.df_curr, k) = 0 THEN CountKey(run.df_prev, k) ELSE 0
              /\ CountMergedKey(run.results["new_hires"], k)
                    = IF CountKey(run.df_prev, k) = 0 THEN CountKey(run.df_curr, k) ELSE 0
        /\ run.summary["n_continuing"]
              = SumOver(KeysOf(run.df_prev) \cup KeysOf(run.df_curr),
                        run.df_prev, run.df_curr)
        /\ summary_metrics["n_continuing"] = run.summary["n_continuing"]

\* A completed run with a key carried by two Prior rows and two Current
\* rows, hence by four continuing rows.
C20_Witness ==
    /\ Complete
    /\ \E k \in KeysOf(run.df_prev) :
          /\ CountKey(run.df_prev, k) = 2
          /\ CountKey(run.df_curr, k) = 2
          /\ CountMergedKey(run.results["continuing"], k) = 4
    /\ summary_metrics["n_continuing"] = 4

\* C21: where the increase-rate rule of a group has run with a rate x > 0,
\* no continuing row whose current salary is equal to or lower than its
\* prior salary is in the rule's finding set, and no row is in both the
\* decrease and the increase-rate finding set of the group.
C21_IncreaseFlagsOnlyGrowth ==
    Complete =>
        \A g \in {1, 3} :
            (/\ RuleName(g, "increase") \in DOMAIN run.results
             /\ IntOfDigits(RateText(g)) > 0) =>
                \A r \in RowsOf(run.results["continuing"]) :
                    /\ (/\ IsNum(r[PrevOf(SalaryOf(g))])
                        /\ IsNum(r[CurrOf(SalaryOf(g))])
                        /\ r[CurrOf(SalaryOf(g))].n <= r[PrevOf(SalaryOf(g))].n)
                           => ~Appears(RuleName(g, "increase"), r)
                    /\ RuleName(g, "decrease") \in DOMAIN run.results
                           => ~(/\ Appears(RuleName(g, "decrease"), r)
                                /\ Appears(RuleName(g, "increase"), r))

\* The run of the present widgets with the retiree uploader left empty.
RunWithoutRetireeFile ==
    RunCheck(file_prev, file_curr, NoFile, selections_prev, selections_curr,
             selections_retire, base_date, salary_checks)

\* The retiree file is the Retiree source and does not load: its header
\* row is not found or it fails to parse.
RetireeFileFailsToLoad ==
    /\ RetireFileIsUsed(selections_curr)
    /\ file_retire.present
    /\ ~file_retire.loads

====
